---- MODULE Spec2Model ----
(***************************************************************************)
(* Model of the wb-intake capture quality gate (src/src/lib/image-utils.ts)*)
(* of the capture page handlers that call it and the page's tyre-depth     *)
(* form (src/src/pages/Vin.tsx), of the shared VIN utilities normalizeVin  *)
(* and isValidVin (src/unnamed/part_002), with strings as sequences of     *)
(* characters, of the live decoding of the VinScanner                      *)
(* (src/src/components/VinScanner.tsx) and of the OCR helpers              *)
(* ocrVinFromImage and ocrOdoFromImage (src/src/lib/api.ts).               *)
(* Tyre depths are integers in tenths of a millimetre.                     *)
(*                                                                         *)
(* Number representation.  JavaScript numbers are modelled in fixed point: *)
(*   - ratios passed to cropCanvas are thousandths (Num(120) is 0.12) or   *)
(*     NaN; an option that is not supplied has hasMarginRatio = FALSE;     *)
(*   - region ratios of computeRegionStats are integers in hundredths;     *)
(*   - luminance is an integer 0..255 (the weighted sum rounded down);     *)
(*   - brightness, contrast, sharpness, centerContrast, edgeContrast and   *)
(*     framingScore are integers in tenths (Scale), rounded down.          *)
(***************************************************************************)
EXTENDS Integers, Sequences, FiniteSets, TLC

\* ---------------------------------------------------------------- bounds
MaxDim == 5          \* widths and heights of the pixel-level images: 1..MaxDim
MaxPhotos == 2       \* photos handled by the capture page in one behaviour
MaxPad == 2          \* whitespace characters on each side of a label's punctuation
MaxResults == 2      \* onResult calls of one VinScanner followed in one behaviour

\* ------------------------------------------------------- program constants
Scale == 10          \* fixed-point unit of the metrics (tenths)
maxSamples == 120000
band == 18           \* 0.18, in hundredths

DEFAULT_MARGIN == [vin |-> 120, odometer |-> 100]

TARGET_THRESHOLDS ==
  [vin      |-> [brightnessMin |-> 45, brightnessMax |-> 215, contrastMin |-> 22,
                 sharpnessMin |-> 13, framingScoreMin |-> 6],
   odometer |-> [brightnessMin |-> 55, brightnessMax |-> 205, contrastMin |-> 26,
                 sharpnessMin |-> 15, framingScoreMin |-> 5]]

Targets == {"vin", "odometer"}

\* ------------------------------------------------------------ arithmetic
Max(a, b) == IF a >= b THEN a ELSE b
Min(a, b) == IF a <= b THEN a ELSE b
Abs(a) == IF a < 0 THEN -a ELSE a

\* Math.floor(n/d) and Math.ceil(n/d) for d > 0
FloorDiv(n, d) == n \div d
CeilDiv(n, d) == -((-n) \div d)

\* Math.round(w * m/1000) for m >= 0: floor(x + 0.5)
RoundMul(w, m) == (2 * w * m + 1000) \div 2000

RECURSIVE SqrtSearch(_, _, _)
SqrtSearch(v, lo, hi) ==
  IF lo >= hi THEN lo
  ELSE LET mid == (lo + hi + 1) \div 2
       IN IF mid * mid <= v THEN SqrtSearch(v, mid, hi) ELSE SqrtSearch(v, lo, mid - 1)

\* floor(Math.sqrt(v)) for an integer v in 0..4000000
ISqrt(v) == SqrtSearch(v, 0, 2000)

\* F(lo) + F(lo + 1) + ... + F(hi)
RECURSIVE SumIdx(_, _, _)
SumIdx(F(_), lo, hi) == IF lo > hi THEN 0 ELSE F(lo) + SumIdx(F, lo + 1, hi)

\* ------------------------------------------------------------- image data
\* The colours a pixel can take, as <<r, g, b>>.
Palette == << <<0, 0, 0>>, <<50, 50, 50>>, <<255, 255, 255>> >>
Colours == 1..Len(Palette)

\* 0.2126 * r + 0.7152 * g + 0.0722 * b
Lum(p) == (2126 * p[1] + 7152 * p[2] + 722 * p[3]) \div 10000

\* A decoded frame: data[y * width + x] is the pixel at (x, y).  The frames
\* are drawn from a family: an outer ring chequered in colours b and c1
\* around a chequerboard of colours c1 and c2.
Frame(w, h, b, c1, c2) ==
  [width |-> w, height |-> h,
   data |-> [i \in 0..(w * h - 1) |->
               LET x == i % w
                   y == i \div w
               IN IF x = 0 \/ y = 0 \/ x = w - 1 \/ y = h - 1
                  THEN (IF (x + y) % 2 = 0 THEN Palette[b] ELSE Palette[c1])
                  ELSE (IF (x + y) % 2 = 0 THEN Palette[c1] ELSE Palette[c2])]]

Frames(maxDim) ==
  {Frame(w, h, b, c1, c2) : w \in 1..maxDim, h \in 1..maxDim,
                            b \in Colours, c1 \in Colours, c2 \in Colours}

\* ctx.getImageData(sx, sy, sw, sh) on a canvas holding img
getImageData(img, sx, sy, sw, sh) ==
  [width |-> sw, height |-> sh,
   data |-> [i \in 0..(sw * sh - 1) |->
               img.data[(sy + (i \div sw)) * img.width + (sx + (i % sw))]]]

\* ---------------------------------------------------------- computeMetrics
\* step = Math.max(1, Math.floor(Math.sqrt((width * height) / maxSamples)))
RECURSIVE StepSearch(_, _)
StepSearch(area, s) ==
  IF (s + 1) * (s + 1) * maxSamples <= area THEN StepSearch(area, s + 1) ELSE s

SampleStep(width, height) == Max(1, StepSearch(width * height, 0))

\* the iterations of the loops over x and over y in computeMetrics
LoopCount(size, step) == CeilDiv(size, step)

\* samples counted by computeMetrics
SampleCount(width, height) ==
  LET step == SampleStep(width, height)
  IN LoopCount(width, step) * LoopCount(height, step)

GradientNoAbs(a, b) == a - b
Gradient(a, b) == Abs(a - b)

computeMetrics(imageData) ==
  LET width == imageData.width
      height == imageData.height
      step == SampleStep(width, height)
      nx == LoopCount(width, step)
      ny == LoopCount(height, step)
      \* the k-th pixel visited is (X(k), Y(k))
      X(k) == (k % nx) * step
      Y(k) == (k \div nx) * step
      at(x, y) == Lum(imageData.data[y * width + x])
      hasRight(k) == X(k) + step < width
      hasBelow(k) == Y(k) + step < height
      lum(k) == at(X(k), Y(k))
      lumSq(k) == lum(k) * lum(k)
      grad(k) ==
          (IF hasRight(k) THEN Gradient(lum(k), at(X(k) + step, Y(k))) ELSE 0)
        + (IF hasBelow(k) THEN Gradient(lum(k), at(X(k), Y(k) + step)) ELSE 0)
      gradCount(k) == (IF hasRight(k) THEN 1 ELSE 0) + (IF hasBelow(k) THEN 1 ELSE 0)
      samples == nx * ny
      sum == SumIdx(lum, 0, samples - 1)
      sumSq == SumIdx(lumSq, 0, samples - 1)
      gradientSum == SumIdx(grad, 0, samples - 1)
      gradientSamples == SumIdx(gradCount, 0, samples - 1)
      brightness == IF samples # 0 THEN (sum * Scale) \div samples ELSE 0
      \* variance = sumSq / samples - brightness * brightness, in 1/Scale^2
      variance == IF samples # 0
                  THEN ((sumSq * samples - sum * sum) * Scale * Scale) \div (samples * samples)
                  ELSE 0
      contrast == IF variance > 0 THEN ISqrt(variance) ELSE 0
      sharpness == IF gradientSamples # 0
                   THEN (gradientSum * Scale) \div gradientSamples ELSE 0
  IN [brightness |-> brightness, contrast |-> contrast, sharpness |-> sharpness]

\* ------------------------------------------------------ computeRegionStats
\* The pixel rectangle [x0, x1) x [y0, y1) selected by the four ratios
\* (hundredths): x0 = max(0, floor(width * x0Ratio)), x1 = min(width,
\* ceil(width * x1Ratio)), and the same for y.
RegionRect(width, height, x0Ratio, x1Ratio, y0Ratio, y1Ratio) ==
  [x0 |-> Max(0, FloorDiv(width * x0Ratio, 100)),
   x1 |-> Min(width, CeilDiv(width * x1Ratio, 100)),
   y0 |-> Max(0, FloorDiv(height * y0Ratio, 100)),
   y1 |-> Min(height, CeilDiv(height * y1Ratio, 100))]

computeRegionStats(data, width, height, x0Ratio, x1Ratio, y0Ratio, y1Ratio) ==
  LET r == RegionRect(width, height, x0Ratio, x1Ratio, y0Ratio, y1Ratio)
      nx == Max(0, r.x1 - r.x0)
      ny == Max(0, r.y1 - r.y0)
      lum(k) == Lum(data[(r.y0 + (k \div nx)) * width + (r.x0 + (k % nx))])
      lumSq(k) == lum(k) * lum(k)
      count == nx * ny
      sum == SumIdx(lum, 0, count - 1)
      sumSq == SumIdx(lumSq, 0, count - 1)
      variance == ((sumSq * count - sum * sum) * Scale * Scale) \div (count * count)
  IN IF count = 0 THEN [brightness |-> 0, contrast |-> 0]
     ELSE [brightness |-> (sum * Scale) \div count,
           contrast |-> IF variance > 0 THEN ISqrt(variance) ELSE 0]

\* -------------------------------------------------------- computeEdgeStats
\* the four rectangles computeEdgeStats hands to computeRegionStats
EdgeBands(width, height) ==
  [top    |-> RegionRect(width, height, 0, 100, 0, band),
   bottom |-> RegionRect(width, height, 0, 100, 100 - band, 100),
   left   |-> RegionRect(width, height, 0, band, band, 100 - band),
   right  |-> RegionRect(width, height, 100 - band, 100, band, 100 - band)]

computeEdgeStats(data, width, height) ==
  LET top == computeRegionStats(data, width, height, 0, 100, 0, band)
      bottom == computeRegionStats(data, width, height, 0, 100, 100 - band, 100)
      left == computeRegionStats(data, width, height, 0, band, band, 100 - band)
      right == computeRegionStats(data, width, height, 100 - band, 100, band, 100 - band)
  IN [brightness |-> (top.brightness + bottom.brightness + left.brightness + right.brightness) \div 4,
      contrast |-> (top.contrast + bottom.contrast + left.contrast + right.contrast) \div 4]

\* ------------------------------------------------------- JavaScript numbers
\* A ratio is a number in thousandths, or NaN.
Num(v) == [nan |-> FALSE, v |-> v]
NaN == [nan |-> TRUE, v |-> 0]

MathMax(a, b) == IF a.nan \/ b.nan THEN NaN ELSE Num(Max(a.v, b.v))
MathMin(a, b) == IF a.nan \/ b.nan THEN NaN ELSE Num(Min(a.v, b.v))
\* a <= b on numbers: false when either side is NaN
LessEq(a, b) == ~a.nan /\ ~b.nan /\ a.v <= b.v

\* -------------------------------------------------------------- cropCanvas
CropApplied(marginX, marginY) == marginX > 0 \/ marginY > 0

CropMarginOneSided(size, margin) == size - margin
CropExtent(size, margin) == size - margin * 2

DegenerateNever(cropWidth, cropHeight) == FALSE
Degenerate(cropWidth, cropHeight) == cropWidth <= 0 \/ cropHeight <= 0

cropCanvas(source, marginRatio) ==
  LET full == [x |-> 0, y |-> 0, width |-> source.width, height |-> source.height]
  IN IF LessEq(marginRatio, Num(0))
     THEN [threw |-> FALSE, canvas |-> source, bounds |-> full, applied |-> FALSE]
     ELSE IF marginRatio.nan
     \* marginX, marginY, cropWidth and cropHeight are NaN; neither guard
     \* holds, and getImageData(NaN, NaN, NaN, NaN) reads a zero-width
     \* rectangle, which throws
     THEN [threw |-> TRUE, canvas |-> source, bounds |-> full, applied |-> FALSE]
     ELSE LET marginX == RoundMul(source.width, marginRatio.v)
              marginY == RoundMul(source.height, marginRatio.v)
              cropWidth == CropExtent(source.width, marginX)
              cropHeight == CropExtent(source.height, marginY)
          IN IF Degenerate(cropWidth, cropHeight)
             THEN [threw |-> FALSE, canvas |-> source, bounds |-> full, applied |-> FALSE]
             ELSE [threw |-> FALSE,
                   canvas |-> getImageData(source, marginX, marginY, cropWidth, cropHeight),
                   bounds |-> [x |-> marginX, y |-> marginY,
                               width |-> cropWidth, height |-> cropHeight],
                   applied |-> CropApplied(marginX, marginY)]

\* ------------------------------------------------------------ canvasToFile
JPEG_MIME == "image/jpeg"

\* The file made from the canvas; the original when toBlob yields no blob.
canvasToFile(canvas, original, mime, blobOk) ==
  IF ~blobOk THEN original
  ELSE [kind |-> "crop", type |-> mime, decodes |-> TRUE, flag |-> original.flag,
        frame |-> canvas]

\* ----------------------------------------------------- analyzeAndCropImage
\* lines 189-191: the ratio handed to cropCanvas and returned as marginRatio
Clamp(m) == MathMin(MathMax(m, Num(0)), Num(250))

EffectiveMargin(options) ==
  IF options.hasMarginRatio THEN Clamp(options.marginRatio)
  ELSE Num(DEFAULT_MARGIN[options.target])

FramingMessage(target) ==
  IF target = "vin" THEN "VIN not centered in framing guide"
  ELSE "Odometer cluster not centered"

ThresholdsVinOnly(target) == TARGET_THRESHOLDS["vin"]
Thresholds(target) == TARGET_THRESHOLDS[target]

\* lines 217-236: the issue list in push order
BrightnessIssues(brightness, thresholds) ==
  IF brightness < thresholds.brightnessMin * Scale THEN <<"Image too dark">>
  ELSE IF brightness > thresholds.brightnessMax * Scale THEN <<"Image overexposed">>
  ELSE <<>>

QualityIssues(target, croppedMetrics, framingScore) ==
  LET thresholds == Thresholds(target)
  IN BrightnessIssues(croppedMetrics.brightness, thresholds)
     \o (IF croppedMetrics.contrast < thresholds.contrastMin * Scale
         THEN <<"Low contrast">> ELSE <<>>)
     \o (IF croppedMetrics.sharpness < thresholds.sharpnessMin * Scale
         THEN <<"Image appears blurry">> ELSE <<>>)
     \o (IF framingScore < thresholds.framingScoreMin * Scale
         THEN <<FramingMessage(target)>> ELSE <<>>)

ShouldRetakeBrightnessOnly(issues) == Len(issues) > 0 /\ issues[1] = "Image too dark"
ShouldRetake(issues) == Len(issues) > 0

\* the image computeMetrics is given (line 203) and the one the region
\* statistics are given (lines 205-214)
MetricsSourceBase(baseCanvas, croppedCanvas) == baseCanvas
MetricsSource(baseCanvas, croppedCanvas) == croppedCanvas
RegionSource(baseCanvas, croppedCanvas) == baseCanvas

Rejected(error, margin) ==
  [status |-> "rejected", error |-> error, cropArg |-> margin]

\* env.ctxOk: getContext('2d') returns a context; env.blobOk: toBlob
\* yields a blob.  cropArg is the ratio cropCanvas was called with
\* (NoCropArg when the call ended before line 200).
NoCropArg == [nan |-> FALSE, v |-> -1, called |-> FALSE]
CropArg(m) == [nan |-> m.nan, v |-> m.v, called |-> TRUE]

\* The value of a constant declaration: the one element of a singleton.
\* A value bound this way is computed once, as a const is.
Only(S) == CHOOSE v \in S : TRUE

\* lines 217-262: the issues, the processed file and the result, from the
\* values computed at lines 189-215
AnalyzeResult(file, env, target, marginRatio, preferredMime, crop, croppedMetrics, centerStats, edgeStats) ==
  LET baseCanvas == file.frame
      croppedCanvas == crop.canvas
      framingScore == centerStats.contrast - edgeStats.contrast
      processedFile == IF crop.applied
                       THEN canvasToFile(croppedCanvas, file, preferredMime, env.blobOk)
                       ELSE file
  IN Only({[status |-> "ok",
            cropArg |-> CropArg(marginRatio),
            processedFile |-> processedFile,
            originalFile |-> file,
            marginRatio |-> marginRatio,
            analysis |->
              [brightness |-> croppedMetrics.brightness,
               contrast |-> croppedMetrics.contrast,
               sharpness |-> croppedMetrics.sharpness,
               centerContrast |-> centerStats.contrast,
               edgeContrast |-> edgeStats.contrast,
               framingScore |-> framingScore,
               cropApplied |-> crop.applied,
               cropBounds |-> crop.bounds,
               originalDimensions |-> [width |-> baseCanvas.width,
                                       height |-> baseCanvas.height],
               processedDimensions |-> [width |-> croppedCanvas.width,
                                        height |-> croppedCanvas.height],
               shouldRetake |-> ShouldRetake(issues),
               issues |-> issues]] :
           issues \in {QualityIssues(target, croppedMetrics, framingScore)}})

\* lines 198-215: the metrics of the cropped canvas and the region
\* statistics of the base canvas
AnalyzeCrop(file, env, target, marginRatio, preferredMime, crop) ==
  LET baseCanvas == file.frame
      src == MetricsSource(baseCanvas, crop.canvas)
      reg == RegionSource(baseCanvas, crop.canvas)
  IN IF crop.threw THEN Rejected("IndexSizeError", CropArg(marginRatio))
     ELSE Only({AnalyzeResult(file, env, target, marginRatio, preferredMime, crop,
                              croppedMetrics, centerStats, edgeStats) :
                  croppedMetrics \in
                    {computeMetrics(getImageData(src, 0, 0, src.width, src.height))},
                  centerStats \in
                    {computeRegionStats(reg.data, reg.width, reg.height, 25, 75, 25, 75)},
                  edgeStats \in {computeEdgeStats(reg.data, reg.width, reg.height)}})

\* the error createImageBitmap rejects with for a file that does not decode
DecodeError == "decode failed"

\* lines 53-66.  steps lists the platform calls made, in order.
loadImageBlank(file, env) == [ok |-> TRUE, error |-> "", steps |-> <<"createImageBitmap", "createImageBitmap", "createElement", "getContext", "drawImage", "close">>]
loadImage(file, env) ==
  IF ~file.decodes
  THEN [ok |-> FALSE, error |-> DecodeError, steps |-> <<"createImageBitmap">>]
  ELSE IF ~env.ctxOk
  THEN [ok |-> FALSE, error |-> "Canvas 2D context unavailable",
        steps |-> <<"createImageBitmap", "createElement", "getContext", "close">>]
  ELSE [ok |-> TRUE, error |-> "",
        steps |-> <<"createImageBitmap", "createElement", "getContext", "drawImage", "close">>]

\* the result with the platform calls that led to it
Traced(r, steps) == [steps |-> steps] @@ r

IsImageTypeAlways(type) == TRUE
IsImageType(type) == type \in {"image/jpeg", "image/png"}

analyzeAndCropImage(file, options, env) ==
  IF ~IsImageType(file.type) THEN Traced(Rejected("File must be an image", NoCropArg), <<>>)
  ELSE IF ~loadImage(file, env).ok
  THEN Traced(Rejected(loadImage(file, env).error, NoCropArg), loadImage(file, env).steps)
  ELSE
    LET preferredMime == IF options.preferredMimeType # "undefined"
                         THEN options.preferredMimeType ELSE file.type
    IN Only({Traced(AnalyzeCrop(file, env, options.target, marginRatio, preferredMime, crop),
                    loadImage(file, env).steps \o <<"getImageData", "cropCanvas">>) :
               marginRatio \in {EffectiveMargin(options)},
               crop \in {cropCanvas(file.frame, EffectiveMargin(options))}})

\* ------------------------------------------------------------ strings
\* A JavaScript string is a sequence of one-character strings.
UpperLetters == <<"A", "B", "C", "D", "E", "F", "G", "H", "I", "J", "K", "L", "M", "N", "O", "P", "Q", "R", "S", "T", "U", "V", "W", "X", "Y", "Z">>
LowerLetters == <<"a", "b", "c", "d", "e", "f", "g", "h", "i", "j", "k", "l", "m", "n", "o", "p", "q", "r", "s", "t", "u", "v", "w", "x", "y", "z">>
Letters == {UpperLetters[i] : i \in 1..Len(UpperLetters)}
Digits == {"0", "1", "2", "3", "4", "5", "6", "7", "8", "9"}

\* String.prototype.toUpperCase on the characters the model uses
ToUpperChar(c) ==
  IF \E i \in 1..Len(LowerLetters) : LowerLetters[i] = c
  THEN UpperLetters[CHOOSE i \in 1..Len(LowerLetters) : LowerLetters[i] = c]
  ELSE c

toUpperCase(s) == [i \in 1..Len(s) |-> ToUpperChar(s[i])]

\* the regular expression classes \s, [A-Z0-9], \w and [:\-#]
IsSpace(c) == c \in {" ", "\t", "\n"}
IsAlnum(c) == c \in Letters \cup Digits
IsWord(c) == IsAlnum(c) \/ c = "_" \/ (\E i \in 1..Len(LowerLetters) : LowerLetters[i] = c)
IsLabelPunct(c) == c \in {":", "-", "#"}

\* \b before position i of s (positions 1..Len(s) + 1)
WordAt(s, i) == i >= 1 /\ i <= Len(s) /\ IsWord(s[i])
BoundaryAnywhere(s, i) == TRUE
Boundary(s, i) == WordAt(s, i - 1) # WordAt(s, i)

\* s has the characters of m from position i on
HasAt(s, i, m) ==
  /\ i + Len(m) - 1 <= Len(s)
  /\ \A k \in 1..Len(m) : s[i + k - 1] = m[k]

\* the first position from k on that holds no whitespace (no [A-Z0-9])
RECURSIVE SkipSpace(_, _)
SkipSpace(s, k) == IF k <= Len(s) /\ IsSpace(s[k]) THEN SkipSpace(s, k + 1) ELSE k

RECURSIVE SkipAlnum(_, _)
SkipAlnum(s, k) == IF k <= Len(s) /\ IsAlnum(s[k]) THEN SkipAlnum(s, k + 1) ELSE k

\* ------------------------------------------------------------ normalizeVin
\* the alternatives VIN, V/N, VN, CHASSIS, CHAS and NO of both patterns
Markers == <<<<"V", "I", "N">>, <<"V", "/", "N">>, <<"V", "N">>, <<"C", "H", "A", "S", "S", "I", "S">>, <<"C", "H", "A", "S">>, <<"N", "O">>>>

\* the positions right after a marker \bMARKER\b that starts at i
MarkerEnds(s, i) ==
  {i + Len(Markers[m]) : m \in {n \in 1..Len(Markers) :
                                  /\ HasAt(s, i, Markers[n])
                                  /\ Boundary(s, i)
                                  /\ Boundary(s, i + Len(Markers[n]))}}

\* the least number of whitespace characters right before the captured run
\* (\s{2,} in LABEL_PATTERN_STRICT, \s* in LABEL_PATTERN_LOOSE)
MinGap(strict) == IF strict THEN 2 ELSE 0

\* \s*[:\-#]?\s{n,}([A-Z0-9]{5,}) from position j on: the whitespace, the
\* optional punctuation character, the whitespace again and the longest run
\* of [A-Z0-9]
TailAt(s, j, strict) ==
  LET a == SkipSpace(s, j)
      punct == a <= Len(s) /\ IsLabelPunct(s[a])
      p == IF punct THEN a + 1 ELSE a
      b == SkipSpace(s, p)
      e == SkipAlnum(s, b)
      gap == IF punct THEN b - p ELSE a - j
  IN [ok |-> gap >= MinGap(strict) /\ e - b >= 5, capStart |-> b, capEnd |-> e]

NoMatch == [found |-> FALSE, start |-> 0, capStart |-> 0, capEnd |-> 0]

\* the match of the pattern at position i, if there is one
MatchAt(s, i, strict) ==
  LET ends == {j \in MarkerEnds(s, i) : TailAt(s, j, strict).ok}
  IN IF ends = {} THEN NoMatch
     ELSE LET t == TailAt(s, CHOOSE j \in ends : TRUE, strict)
          IN [found |-> TRUE, start |-> i, capStart |-> t.capStart, capEnd |-> t.capEnd]

\* upper.match(pattern): the leftmost match
RECURSIVE MatchFrom(_, _, _)
MatchFrom(s, i, strict) ==
  IF i > Len(s) THEN NoMatch
  ELSE IF MatchAt(s, i, strict).found THEN MatchAt(s, i, strict)
  ELSE MatchFrom(s, i + 1, strict)

match(s, strict) == MatchFrom(s, 1, strict)

\* match[0].length and match[1]
MatchLength(m) == m.capEnd - m.start
Captured(s, m) == SubSeq(s, m.capStart, m.capEnd - 1)

\* line 14: the loose match is used
LooseGuardSeparator(s, loose) == (loose.capStart - loose.start) - (loose.capEnd - loose.capStart) >= 3
LooseGuard(s, loose) == MatchLength(loose) - Len(Captured(s, loose)) >= 3

\* line 19: .replace(/[^A-Z0-9]/g, '').replace(/[IOQ]/g, '')
KeepAll(c) == TRUE
KeepAlnum(c) == IsAlnum(c)
DropIOQNever(c) == TRUE
DropIOQ(c) == c \notin {"I", "O", "Q"}
Strip(s) == SelectSeq(SelectSeq(s, KeepAlnum), DropIOQ)

\* line 21
VinLength == 17
TruncateNever(s) == s
Truncate(s) == IF Len(s) > VinLength THEN SubSeq(s, 1, VinLength) ELSE s

\* lines 9-17: the candidate
CandidateWholeInput(upper) == upper
Candidate(upper) ==
  LET spaced == match(upper, TRUE)
      loose == match(upper, FALSE)
  IN IF spaced.found THEN Captured(upper, spaced)
     ELSE IF loose.found /\ LooseGuard(upper, loose) THEN Captured(upper, loose)
     ELSE upper

\* raw is [kind, text]: a string, null or undefined (raw || '')
OrEmpty(raw) == IF raw.kind = "string" THEN raw.text ELSE <<>>

normalizeVin(raw) == Truncate(Strip(Candidate(toUpperCase(OrEmpty(raw)))))

\* -------------------------------------------------------------- isValidVin
\* line 32: /^[A-HJ-NPR-Z0-9]{17}$/i
IsVinChar(c) == IsAlnum(c) /\ c \notin {"I", "O", "Q"}
VinShape(s) == Len(s) = VinLength /\ \A i \in 1..Len(s) : IsVinChar(s[i])

\* s holds n or more consecutive characters that all lie in set
HasRun(s, set, n) ==
  \E i \in 1..(Len(s) - n + 1) : \A k \in 0..(n - 1) : s[i + k] \in set

\* /(.)\1{5,}/: one character, then the same character 5 or more times
HasRepeat(s) ==
  \E i \in 1..(Len(s) - 5) : \A k \in 1..5 : s[i + k] = s[i]

hasObviousOcrErrorsNever(vin) == FALSE
hasObviousOcrErrors(vin) ==
  \/ HasRun(vin, {"I", "L", "1"}, 3)
  \/ HasRun(vin, {"O", "0"}, 4)
  \/ (Len(vin) = 17 /\ \A i \in 1..Len(vin) : vin[i] \in Digits)
  \/ (Len(vin) = 17 /\ \A i \in 1..Len(vin) : vin[i] \in Letters)
  \/ HasRepeat(vin)

\* lines 36-42; weights[i + 1] is the weight of index i
weights == <<8, 7, 6, 5, 4, 3, 2, 10, 0, 9, 8, 7, 6, 5, 4, 3, 2>>

values ==
  [c \in Digits \cup (Letters \ {"I", "O", "Q"}) |->
     CASE c = "0" -> 0 [] c = "1" -> 1 [] c = "2" -> 2 [] c = "3" -> 3 [] c = "4" -> 4
       [] c = "5" -> 5 [] c = "6" -> 6 [] c = "7" -> 7 [] c = "8" -> 8 [] c = "9" -> 9
       [] c = "A" -> 1 [] c = "B" -> 2 [] c = "C" -> 3 [] c = "D" -> 4 [] c = "E" -> 5
       [] c = "F" -> 6 [] c = "G" -> 7 [] c = "H" -> 8
       [] c = "J" -> 1 [] c = "K" -> 2 [] c = "L" -> 3 [] c = "M" -> 4 [] c = "N" -> 5
       [] c = "P" -> 7 [] c = "R" -> 9 [] c = "S" -> 2
       [] c = "T" -> 3 [] c = "U" -> 4 [] c = "V" -> 5 [] c = "W" -> 6 [] c = "X" -> 7
       [] c = "Y" -> 8 [] c = "Z" -> 9]

\* values[c] || 0
ValueOf(c) == IF c \in DOMAIN values THEN values[c] ELSE 0

\* s[i - 1] in JavaScript: undefined past the end
At(s, i) == IF i >= 1 /\ i <= Len(s) THEN s[i] ELSE "undefined"

\* lines 44-48: the sum over the indexes other than 8
RECURSIVE WeightedSum(_, _)
WeightedSum(normalized, i) ==
  IF i > 17 THEN 0
  ELSE (IF i = 9 THEN 0 ELSE ValueOf(At(normalized, i)) * weights[i])
       + WeightedSum(normalized, i + 1)

\* lines 50-51
DigitChars == <<"0", "1", "2", "3", "4", "5", "6", "7", "8", "9">>
ExpectedCheck(normalized) ==
  LET checkDigit == WeightedSum(normalized, 1) % 11
  IN IF checkDigit = 10 THEN "X" ELSE DigitChars[checkDigit + 1]

\* lines 88-90
looksLikeAnyVin(vin) == TRUE
looksLikeSouthAfricanVin(vin) == Len(vin) >= 1 /\ vin[1] \in {"A", "B", "V"}

\* lines 73-83
toleranceMap ==
  [c \in {"0", "O", "1", "I", "L", "5", "S", "8", "B"} |->
     CASE c = "0" -> {"O"} [] c = "O" -> {"0"} [] c = "1" -> {"I", "L"}
       [] c = "I" -> {"1"} [] c = "L" -> {"1"} [] c = "5" -> {"S"} [] c = "S" -> {"5"}
       [] c = "8" -> {"B"} [] c = "B" -> {"8"}]

hasSAVinTolerance(vin, expectedCheck) ==
  IF ~looksLikeSouthAfricanVin(vin) THEN FALSE
  ELSE IF expectedCheck \in DOMAIN toleranceMap
       THEN At(vin, 9) \in toleranceMap[expectedCheck]
       ELSE FALSE

\* What isValidVin returns (value), whether it threw, and whether it reached
\* the checksum loop of lines 44-51 (checksum, with the expected character).
Verdict(value, checksum, expectedCheck) ==
  [value |-> value, threw |-> FALSE, checksum |-> checksum, expectedCheck |-> expectedCheck,
   done |-> FALSE]

CheckMatchesAlways(normalized, expectedCheck) == TRUE
CheckMatches(normalized, expectedCheck) == At(normalized, 9) = expectedCheck

\* lines 31-32: the returns before the checksum
MalformedEmptyOnly(normalized) == Len(normalized) = 0
Malformed(normalized) ==
  \/ Len(normalized) = 0 \/ Len(normalized) # VinLength
  \/ ~VinShape(normalized)

isValidVinOf(normalized) ==
  IF Malformed(normalized) THEN Verdict(FALSE, FALSE, "")
  ELSE IF hasObviousOcrErrors(normalized) THEN Verdict(FALSE, FALSE, "")
  ELSE IF ~CheckMatches(normalized, ExpectedCheck(normalized))
       THEN Verdict(hasSAVinTolerance(normalized, ExpectedCheck(normalized)), TRUE,
                    ExpectedCheck(normalized))
  ELSE Verdict(TRUE, TRUE, ExpectedCheck(normalized))

isValidVin(vin) == isValidVinOf(normalizeVin(vin))

\* ------------------------------------------------------------------ state
VARIABLES
  call,        \* the arguments of the last analyzeAndCropImage call
  result,      \* what that call returned or how it was rejected
  imageData,   \* the ImageData last handed to computeMetrics directly
  metrics,     \* what computeMetrics returned for it
  dims,        \* a frame size whose sampling and edge bands are computed
  sampled,     \* the step and sample count computeMetrics uses for dims
  bands        \* the four edge rectangles computeEdgeStats uses for dims

VARIABLES
  testEnv,           \* IS_TEST_ENV
  server,            \* the record on the server: sealed, and the roles with a photo
  isSealed,          \* React state of the Vin page ...
  uploading,
  activeRole,
  guideRole,
  qualityIssue,
  ocrScanning,
  odometerScanning,
  odometerCaptureFallback,  \* the fallback timer of captureOdometer is armed
  fileRun,           \* the onFile invocation in progress
  odoRun,            \* the onOdometerFile invocation in progress
  nextPhoto,         \* photos are numbered as the handlers receive them
  ocrLog,            \* photos for which ocrVinFromImage / ocrOdoFromImage was called
  uploadLog,         \* photos for which uploadPhotoDev was called
  retakeLog,         \* photos whose analysis, as acted on, had shouldRetake = true
  issueLog,          \* photos for which the handler recorded a quality issue
  alertLog           \* what the last onFile run's final check ended with: "none",
                     \* or 'Upload failed' after a check that did not find the
                     \* photo ("missing") or that threw ("failed")

VARIABLES
  raw,           \* the argument of normalizeVin / isValidVin
  shape,         \* how raw was put together
  normalized,    \* what normalizeVin(raw) returned
  renormalized,  \* what normalizeVin returned for that result
  verdict        \* what isValidVin(raw) returned

libVars == <<call, result, imageData, metrics, dims, sampled, bands>>
reactVars == <<isSealed, uploading, activeRole, guideRole, qualityIssue, ocrScanning,
               odometerScanning>>
logVars == <<nextPhoto, ocrLog, uploadLog, retakeLog, issueLog, alertLog>>
pageVars == <<testEnv, server, reactVars, odometerCaptureFallback,
              fileRun, odoRun, logVars>>
VARIABLES
  tyreDepths,    \* React state of the Vin page: the four tyre-depth fields
  saving,        \* React state of the Vin page: "null" or the section being saved
  tyresMm,       \* tyres_mm of the record on the server
  tyreRun        \* the saveTyreDepths invocation in progress

VARIABLES
  allowInvalidVins,  \* prop of the VinScanner
  mounted,           \* the VinScanner is mounted
  decodeLoop,        \* the reader's decode loop: "idle", "starting", "running",
                     \* "stopped", or why there is none
  startAttempt,      \* which of startScan's three attempts is under way
  controlsRef,       \* controlsRef.current: "null" or "controls"
  scanning,          \* React state of the VinScanner ...
  detected,
  ocrResult,
  onResultLog,       \* the arguments of the onResult calls, in order
  onCloseCalled      \* onClose has been called

VARIABLES
  ocrCall,       \* the arguments of an ocrVinFromImage / ocrOdoFromImage call
  ocrRun         \* how far the call is, and what it has reported and sent

vinVars == <<raw, shape, normalized, renormalized, verdict>>
tyreVars == <<tyreDepths, saving, tyresMm, tyreRun>>
scanVars == <<allowInvalidVins, mounted, decodeLoop, startAttempt, controlsRef, scanning,
              detected, ocrResult, onResultLog, onCloseCalled>>
ocrVars == <<ocrCall, ocrRun>>
widgetVars == <<scanVars, ocrVars>>
\* what load() leaves alone outside the photo state
loadKept == <<saving, tyresMm, tyreRun, widgetVars>>
otherVars == <<tyreVars, widgetVars>>
nonScanVars == <<libVars, pageVars, vinVars, tyreVars, ocrVars>>
vars == <<libVars, pageVars, vinVars, otherVars>>

\* ----------------------------------------------------------------- inputs
\* options.marginRatio values: -0.1, 0, 0.001, 0.15, 0.25, 0.5 and NaN
MarginInputs == {Num(-100), Num(0), Num(1), Num(150), Num(250), Num(500), NaN}

OptionsSet ==
  {[target |-> t, hasMarginRatio |-> FALSE, marginRatio |-> Num(0),
    preferredMimeType |-> "undefined"] : t \in Targets}
  \cup {[target |-> t, hasMarginRatio |-> TRUE, marginRatio |-> m,
         preferredMimeType |-> "image/jpeg"] : t \in Targets, m \in MarginInputs}

Capture(type, decodes, flag, frame) ==
  [kind |-> "capture", type |-> type, decodes |-> decodes, flag |-> flag, frame |-> frame]

\* a text file, a picture whose type is not an image type, and a file of
\* type image/jpeg that does not decode
BadFiles == {Capture("text/plain", FALSE, "none", Frame(1, 1, 1, 1, 1)),
             Capture("application/octet-stream", TRUE, "none", Frame(2, 2, 1, 3, 3)),
             Capture("image/jpeg", FALSE, "none", Frame(1, 1, 1, 1, 1))}

ImageFiles == {Capture("image/jpeg", TRUE, "none", f) : f \in Frames(MaxDim)}

Envs == {[ctxOk |-> TRUE, blobOk |-> TRUE], [ctxOk |-> TRUE, blobOk |-> FALSE],
         [ctxOk |-> FALSE, blobOk |-> TRUE]}

NoCall == [file |-> Capture("none", FALSE, "none", Frame(1, 1, 1, 1, 1)),
           options |-> [target |-> "vin", hasMarginRatio |-> FALSE, marginRatio |-> Num(0),
                        preferredMimeType |-> "undefined"],
           env |-> [ctxOk |-> TRUE, blobOk |-> TRUE]]
NoResult == [status |-> "none"]

EmptyImageData == [width |-> 0, height |-> 0, data |-> <<>>]
NoMetrics == [brightness |-> 0, contrast |-> 0, sharpness |-> 0, computed |-> FALSE]
NoDims == [width |-> 0, height |-> 0]
NoSampled == [step |-> 0, samples |-> 0, computed |-> FALSE]
NoBands == [computed |-> FALSE]

\* ------------------------------------------------------- the capture page
\* The role button the model presses (engine_bay, the photo role that may
\* carry a VIN), and ROLE_GUIDE[role].canScanVin.
Roles == {"engine_bay"}
canScanVin(role) == role \in {"engine_bay", "dash_odo"}

NoFile == [kind |-> "none", type |-> "", decodes |-> FALSE, flag |-> "none",
           frame |-> [width |-> 0, height |-> 0, data |-> <<>>]]
\* An invocation of onFile or onOdometerFile: where it is (pc), the values
\* its closure captured (role, sealedSeen), its locals, and whether the file
\* came from the chooser that captureOdometer opened (chooser).
NoRun == [pc |-> "idle", photo |-> 0, role |-> "", sealedSeen |-> FALSE, file |-> NoFile,
          uploadSuccess |-> FALSE, photoFound |-> FALSE, attempts |-> 0, chooser |-> FALSE]
NoIssue == [role |-> "null", issues |-> <<>>]

\* the state of the page right after the component is constructed
PageConstructed ==
  /\ isSealed = FALSE
  /\ uploading = "null"
  /\ activeRole = ""
  /\ guideRole = "null"
  /\ qualityIssue = NoIssue
  /\ ocrScanning = FALSE
  /\ odometerScanning = FALSE
  /\ odometerCaptureFallback = FALSE
  /\ fileRun = NoRun
  /\ odoRun = NoRun
  /\ nextPhoto = 1
  /\ ocrLog = {}
  /\ uploadLog = {}
  /\ retakeLog = {}
  /\ issueLog = {}
  /\ alertLog = "none"

\* the library exercised on its own
NoPage ==
  /\ testEnv = FALSE
  /\ server = [sealed |-> FALSE, photos |-> {}]
  /\ PageConstructed

\* the VIN utilities not called
NoString == [kind |-> "undefined", text |-> <<>>]
NoShape == [family |-> "none", prefix |-> <<>>, marker |-> <<>>, sep |-> <<>>, token |-> <<>>,
            suffix |-> <<>>, base |-> <<>>, pos |-> 0, char |-> ""]
NoNormalized == [done |-> FALSE, text |-> <<>>]
NoVerdict == [value |-> FALSE, threw |-> FALSE, checksum |-> FALSE, expectedCheck |-> "",
              done |-> FALSE]

NoVin ==
  /\ raw = NoString
  /\ shape = NoShape
  /\ normalized = NoNormalized
  /\ renormalized = NoNormalized
  /\ verdict = NoVerdict

\* lines 130 and 154: the tyre section as constructed, nothing saved
TyreFields == {"fl", "fr", "rl", "rr"}
TyreNum(tenths) == [type |-> "number", v |-> tenths]
TyreEmpty == [type |-> "string", v |-> 0]
TyreNull == [type |-> "null", v |-> 0]
EmptyDepths == [f \in TyreFields |-> TyreEmpty]
NoSavedTyres == [f \in TyreFields |-> [type |-> "undefined", v |-> 0]]
NoSave == [pc |-> "idle", payload |-> NoSavedTyres]

NoTyres ==
  /\ tyreDepths = EmptyDepths
  /\ saving = "null"
  /\ tyresMm = NoSavedTyres
  /\ tyreRun = NoSave

\* lines 188-196: load() takes the saved depths, null as ''
LoadedTyres ==
  IF tyresMm = NoSavedTyres THEN tyreDepths
  ELSE [f \in TyreFields |-> IF tyresMm[f] = TyreNull THEN TyreEmpty ELSE tyresMm[f]]

\* the OCR helpers of api.ts not called
NoOcrFile == [present |-> FALSE, size |-> 0, type |-> <<>>]
NoOcrCall == [fn |-> "none", file |-> NoOcrFile, compress |-> "undefined", onProgress |-> FALSE]
NoOcrRun == [pc |-> "init", events |-> <<>>, status |-> "none", outcome |-> "pending",
             error |-> ""]

NoOcr ==
  /\ ocrCall = NoOcrCall
  /\ ocrRun = NoOcrRun

\* VinScanner.tsx lines 46-58: the scanner as constructed
NoOcrResult == [vin |-> <<>>, vinValid |-> FALSE, set |-> FALSE]

ScannerConstructed ==
  /\ mounted = TRUE
  /\ decodeLoop = "idle"
  /\ startAttempt = 0
  /\ controlsRef = "null"
  /\ scanning = FALSE
  /\ detected = <<>>
  /\ ocrResult = NoOcrResult
  /\ onResultLog = <<>>
  /\ onCloseCalled = FALSE

\* no scanner on screen
NoScanner ==
  /\ allowInvalidVins = FALSE
  /\ ScannerConstructed

\* lines 186-196: what load() sets once the record has arrived
LoadApplied ==
  /\ isSealed' = server.sealed
  /\ tyreDepths' = LoadedTyres

NoLibrary ==
  /\ call = NoCall
  /\ result = NoResult
  /\ imageData = EmptyImageData
  /\ metrics = NoMetrics
  /\ dims = NoDims
  /\ sampled = NoSampled
  /\ bands = NoBands

\* ------------------------------------------------- specification: the gate
\* The arguments of one analyzeAndCropImage call are drawn; the call is made.
InitImage ==
  /\ call \in [file : ImageFiles \cup BadFiles, options : OptionsSet, env : Envs]
  /\ result = NoResult
  /\ imageData = EmptyImageData
  /\ metrics = NoMetrics
  /\ dims = NoDims
  /\ sampled = NoSampled
  /\ bands = NoBands
  /\ NoPage
  /\ NoVin
  /\ NoTyres
  /\ NoScanner
  /\ NoOcr

\* analyzeAndCropImage(file, options)
AnalyzeCall ==
  /\ result.status = "none"
  /\ result' = analyzeAndCropImage(call.file, call.options, call.env)
  /\ UNCHANGED <<call, imageData, metrics, dims, sampled, bands, pageVars, vinVars, otherVars>>

NextImage == AnalyzeCall

SpecImage == InitImage /\ [][NextImage]_vars

\* --------------------------------------- specification: computeMetrics
\* The ImageData handed to computeMetrics: the frames, and buffers with no
\* pixels.
ImageDataSet ==
  Frames(MaxDim)
  \cup {[width |-> 0, height |-> 0, data |-> <<>>], [width |-> 0, height |-> 3, data |-> <<>>],
        [width |-> 3, height |-> 0, data |-> <<>>]}

InitMetrics ==
  /\ call = NoCall
  /\ result = NoResult
  /\ imageData \in ImageDataSet
  /\ metrics = NoMetrics
  /\ dims = NoDims
  /\ sampled = NoSampled
  /\ bands = NoBands
  /\ NoPage
  /\ NoVin
  /\ NoTyres
  /\ NoScanner
  /\ NoOcr

\* computeMetrics(imageData)
ComputeMetricsCall ==
  /\ ~metrics.computed
  /\ metrics' = computeMetrics(imageData) @@ [computed |-> TRUE]
  /\ UNCHANGED <<call, result, imageData, dims, sampled, bands, pageVars, vinVars, otherVars>>

NextMetrics == ComputeMetricsCall

SpecMetrics == InitMetrics /\ [][NextMetrics]_vars

\* ------------------------------------------- specification: frame geometry
\* Frame sizes for the sampling step and the edge bands, which depend on the
\* width and height only.
GeomSizes == {10, 50, 100, 346, 347, 400, 692, 693, 1080, 1920, 3024, 4032}

InitGeom ==
  /\ call = NoCall
  /\ result = NoResult
  /\ imageData = EmptyImageData
  /\ metrics = NoMetrics
  /\ dims \in [width : GeomSizes, height : GeomSizes]
  /\ sampled = NoSampled
  /\ bands = NoBands
  /\ NoPage
  /\ NoVin
  /\ NoTyres
  /\ NoScanner
  /\ NoOcr

\* the sampling loops of computeMetrics on a dims.width x dims.height buffer
SamplingCall ==
  /\ ~sampled.computed
  /\ sampled' = [step |-> SampleStep(dims.width, dims.height),
                 samples |-> SampleCount(dims.width, dims.height),
                 computed |-> TRUE]
  /\ UNCHANGED <<call, result, imageData, metrics, dims, bands, pageVars, vinVars, otherVars>>

\* the four regions of computeEdgeStats on a dims.width x dims.height frame
EdgeBandsCall ==
  /\ ~bands.computed
  /\ bands' = EdgeBands(dims.width, dims.height) @@ [computed |-> TRUE]
  /\ UNCHANGED <<call, result, imageData, metrics, dims, sampled, pageVars, vinVars, otherVars>>

NextGeom == SamplingCall \/ EdgeBandsCall

SpecGeom == InitGeom /\ [][NextGeom]_vars

\* ------------------------------------------- specification: the Vin page
\* The photos the user can hand to the page.  flag says which of the
\* test-only file name patterns the name matches: "retake" (blurry, poor,
\* ...), "pass" (clear, ...), "both", or "none".
GoodFrame == Frame(2, 1, 1, 3, 3)
DarkFrame == Frame(2, 1, 1, 1, 1)

PageFiles ==
  {Capture("image/jpeg", TRUE, "none", GoodFrame), Capture("image/jpeg", TRUE, "none", DarkFrame),
   Capture("image/jpeg", TRUE, "retake", GoodFrame), Capture("image/jpeg", TRUE, "pass", DarkFrame),
   Capture("text/plain", FALSE, "none", Frame(1, 1, 1, 1, 1))}

\* lines 481-491 and 244-252: the analysis the handler acts on
ActedAnalysis(file, analysis) ==
  LET forcedRetake == testEnv /\ file.flag \in {"retake", "both"}
      forcedPass == testEnv /\ file.flag \in {"pass", "both"}
  IN IF forcedRetake THEN [analysis EXCEPT !.shouldRetake = TRUE]
     ELSE IF forcedPass THEN [analysis EXCEPT !.shouldRetake = FALSE, !.issues = <<>>]
     ELSE analysis

\* lines 492 and 254: the test that stops the handler
RetakeGateIssues(analysis) == Len(analysis.issues) > 0
RetakeGate(analysis) == analysis.shouldRetake

\* the browser of the page: a 2d context may be unavailable
PageEnvs == {[ctxOk |-> TRUE, blobOk |-> TRUE], [ctxOk |-> FALSE, blobOk |-> TRUE]}

InitPage ==
  /\ NoLibrary
  /\ NoVin
  /\ NoTyres
  /\ NoScanner
  /\ NoOcr
  /\ testEnv \in BOOLEAN
  /\ server \in [sealed : BOOLEAN, photos : {{}}]
  /\ PageConstructed

\* load(): the page state is refreshed from the record
load ==
  /\ LoadApplied
  /\ UNCHANGED <<vinVars, libVars, loadKept, testEnv, server, uploading, activeRole, guideRole, qualityIssue,
                 ocrScanning, odometerScanning, 
                 odometerCaptureFallback, fileRun, odoRun, logVars>>

\* a photo role button: choosePhoto(role)
choosePhoto(role) ==
  /\ ~isSealed /\ uploading = "null"        \* the button is enabled
  /\ guideRole' = role
  /\ UNCHANGED <<vinVars, libVars, otherVars, testEnv, server, isSealed, uploading, activeRole, qualityIssue,
                 ocrScanning, odometerScanning, 
                 odometerCaptureFallback, fileRun, odoRun, logVars>>

\* GuidanceModal onProceed / onCancel
guideProceed ==
  /\ guideRole # "null"
  /\ guideRole' = "null"
  /\ activeRole' = guideRole
  /\ UNCHANGED <<vinVars, libVars, otherVars, testEnv, server, isSealed, uploading, qualityIssue,
                 ocrScanning, odometerScanning, odometerCaptureFallback,
                 fileRun, odoRun, logVars>>

guideCancel ==
  /\ guideRole # "null"
  /\ guideRole' = "null"
  /\ UNCHANGED <<vinVars, libVars, otherVars, testEnv, server, isSealed, uploading, activeRole, qualityIssue,
                 ocrScanning, odometerScanning, 
                 odometerCaptureFallback, fileRun, odoRun, logVars>>

\* captureOdometer(): arms the fallback timer (and, outside the test build,
\* opens the chooser of the odometer input)
captureOdometer ==
  /\ ~odometerScanning /\ ~isSealed         \* the button is enabled
  /\ odometerScanning' = TRUE
  /\ odometerCaptureFallback' = TRUE
  /\ UNCHANGED <<vinVars, libVars, otherVars, testEnv, server, isSealed, uploading, activeRole, guideRole,
                 qualityIssue, ocrScanning, fileRun, odoRun, logVars>>

\* the 5 s fallback timer of captureOdometer (in the test build, the 200 ms
\* mock reading, which also clears a pending odometer issue)
odometerTimer ==
  /\ odometerCaptureFallback
  /\ odometerCaptureFallback' = FALSE
  /\ odometerScanning' = FALSE
  /\ qualityIssue' = (IF testEnv /\ qualityIssue.role = "odometer" THEN NoIssue
                      ELSE qualityIssue)
  /\ UNCHANGED <<vinVars, libVars, otherVars, testEnv, server, isSealed, uploading, activeRole, guideRole,
                 ocrScanning, fileRun, odoRun, logVars>>

\* "Retake photo" on the quality issue banner (lines 1385-1398)
retakePhoto ==
  /\ qualityIssue # NoIssue
  /\ qualityIssue' = NoIssue
  /\ IF qualityIssue.role = "odometer"
     THEN /\ odometerScanning' = TRUE
          /\ odometerCaptureFallback' = TRUE
                  /\ UNCHANGED guideRole
     ELSE /\ guideRole' = (IF isSealed THEN guideRole ELSE qualityIssue.role)
          /\ UNCHANGED <<odometerScanning, odometerCaptureFallback>>
  /\ UNCHANGED <<vinVars, libVars, otherVars, testEnv, server, isSealed, uploading, activeRole,
                 ocrScanning, fileRun, odoRun, logVars>>

\* "Dismiss" on the quality issue banner (lines 1399-1404)
dismissIssue ==
  /\ qualityIssue # NoIssue
  /\ qualityIssue' = NoIssue
  /\ UNCHANGED <<vinVars, libVars, otherVars, testEnv, server, isSealed, uploading, activeRole, guideRole,
                 ocrScanning, odometerScanning, odometerCaptureFallback,
                 fileRun, odoRun, logVars>>

\* ---- onFile ----
AnalyzeOptionsOf(target, mime) ==
  [target |-> target, hasMarginRatio |-> FALSE, marginRatio |-> Num(0),
   preferredMimeType |-> mime]

\* lines 463-480: the change event of the "Take photo" input.  The input is
\* rendered whenever the page is (lines 1326-1334), so a file can be chosen in
\* it whether or not guideProceed opened its chooser.
onFile(file) ==
  /\ fileRun.pc = "idle" /\ nextPhoto <= MaxPhotos
  /\ IF activeRole = ""
     THEN UNCHANGED <<uploading, qualityIssue, fileRun, nextPhoto, alertLog>>
     ELSE /\ uploading' = activeRole
          /\ qualityIssue' = (IF qualityIssue.role = activeRole THEN NoIssue ELSE qualityIssue)
          /\ fileRun' = [NoRun EXCEPT !.pc = "analyzing", !.photo = nextPhoto,
                                      !.role = activeRole, !.sealedSeen = isSealed,
                                      !.file = file]
          /\ nextPhoto' = nextPhoto + 1
          /\ alertLog' = "none"
  /\ UNCHANGED <<vinVars, libVars, otherVars, testEnv, server, isSealed, activeRole, guideRole, ocrScanning,
                 odometerScanning, odometerCaptureFallback, odoRun,
                 ocrLog, uploadLog, retakeLog, issueLog>>

\* lines 477-554: analyzeAndCropImage has settled; the user answers the
\* confirm() of line 502 when it is shown
onFileAnalyzed(env) ==
  /\ fileRun.pc = "analyzing"
  /\ \E r \in {analyzeAndCropImage(fileRun.file,
                   AnalyzeOptionsOf(IF fileRun.role = "dash_odo" THEN "odometer" ELSE "vin",
                                    "image/jpeg"), env)} :
     LET role == fileRun.role
         analysis == ActedAnalysis(fileRun.file, r.analysis)
     IN IF r.status # "ok"
        THEN \* caught at line 556
             /\ fileRun' = [fileRun EXCEPT !.pc = "confirm", !.file = NoFile]
             /\ UNCHANGED <<qualityIssue, uploading, activeRole, ocrScanning,
                            ocrLog, uploadLog, retakeLog, issueLog>>
        ELSE /\ retakeLog' = (IF analysis.shouldRetake THEN retakeLog \cup {fileRun.photo}
                              ELSE retakeLog)
             /\ IF RetakeGate(analysis)
                THEN /\ qualityIssue' = [role |-> role, issues |-> analysis.issues]
                     /\ uploading' = "null"
                     /\ activeRole' = ""
                     /\ fileRun' = NoRun
                     /\ issueLog' = issueLog \cup {fileRun.photo}
                     /\ UNCHANGED <<ocrScanning, ocrLog, uploadLog>>
                ELSE \E shouldOcr \in BOOLEAN :
                       IF canScanVin(role) /\ ~fileRun.sealedSeen /\ shouldOcr
                       THEN /\ ocrScanning' = TRUE
                            /\ ocrLog' = ocrLog \cup {fileRun.photo}
                            /\ fileRun' = [fileRun EXCEPT !.pc = "ocr", !.file = NoFile]
                            /\ UNCHANGED <<qualityIssue, uploading, activeRole, uploadLog,
                                           issueLog>>
                       ELSE /\ uploadLog' = uploadLog \cup {fileRun.photo}
                            /\ fileRun' = [fileRun EXCEPT !.pc = "upload", !.file = NoFile]
                            /\ UNCHANGED <<qualityIssue, uploading, activeRole, ocrScanning,
                                           ocrLog, issueLog>>
  /\ UNCHANGED <<vinVars, libVars, otherVars, testEnv, server, isSealed, guideRole, odometerScanning,
                 odometerCaptureFallback, odoRun, nextPhoto, alertLog>>

\* lines 506-554: ocrVinFromImage has settled; the upload is started
onFileOcrSettled ==
  /\ fileRun.pc = "ocr"
  /\ ocrScanning' = FALSE
  /\ uploadLog' = uploadLog \cup {fileRun.photo}
  /\ fileRun' = [fileRun EXCEPT !.pc = "upload"]
  /\ UNCHANGED <<vinVars, libVars, otherVars, testEnv, server, isSealed, uploading, activeRole, guideRole,
                 qualityIssue, odometerScanning, 
                 odometerCaptureFallback, odoRun, nextPhoto, ocrLog, retakeLog, issueLog,
                 alertLog>>

\* lines 551-560: uploadPhotoDev has settled (stored: the record has the photo)
onFileUploadSettled(ok, stored) ==
  /\ fileRun.pc = "upload"
  /\ ok => stored
  /\ server' = [server EXCEPT !.photos = IF stored THEN @ \cup {fileRun.role} ELSE @]
  /\ fileRun' = [fileRun EXCEPT !.pc = "confirm", !.uploadSuccess = ok]
  /\ UNCHANGED <<vinVars, libVars, otherVars, testEnv, reactVars, 
                 odometerCaptureFallback, odoRun, logVars>>

\* lines 615-617
FileRunEndsKeepsRole == uploading' = "null" /\ activeRole' = activeRole /\ fileRun' = NoRun
FileRunEnds ==
  /\ uploading' = "null"
  /\ activeRole' = ""
  /\ fileRun' = NoRun

\* lines 563, 566 and 589: the loop goes round again
maxAttempts == 3
LoopContinues(photoExists, attempts) == ~photoExists /\ attempts < maxAttempts

\* lines 566-593 (one iteration of the confirmation loop) and, when the
\* loop ends with the photo confirmed, lines 615-617
onFileConfirm(checkOk) ==
  /\ fileRun.pc = "confirm"
  /\ LoadApplied
  /\ LET photoExists == checkOk /\ fileRun.role \in server.photos
         attempts == IF photoExists THEN fileRun.attempts ELSE fileRun.attempts + 1
         uploadSuccess == fileRun.uploadSuccess \/ photoExists
     IN IF LoopContinues(photoExists, attempts)
        THEN /\ fileRun' = [fileRun EXCEPT !.attempts = attempts]
             /\ UNCHANGED <<uploading, activeRole>>
        ELSE IF ~uploadSuccess
        THEN /\ fileRun' = [fileRun EXCEPT !.attempts = attempts, !.pc = "finalCheck"]
             /\ UNCHANGED <<uploading, activeRole>>
        ELSE FileRunEnds
  /\ UNCHANGED <<vinVars, libVars, loadKept, testEnv, server, guideRole, qualityIssue, ocrScanning,
                 odometerScanning, odometerCaptureFallback, odoRun,
                 logVars>>

\* lines 595-617: the last look at the record (finalOk: getPassport
\* answered), the alert, then the run ends
onFileFinalCheck(finalOk) ==
  /\ fileRun.pc = "finalCheck"
  /\ LoadApplied
  /\ alertLog' = (IF ~finalOk THEN "failed"
                  ELSE IF fileRun.role \notin server.photos THEN "missing"
                  ELSE "none")
  /\ FileRunEnds
  /\ UNCHANGED <<vinVars, libVars, loadKept, testEnv, server, guideRole, qualityIssue, ocrScanning,
                 odometerScanning, odometerCaptureFallback, odoRun,
                 nextPhoto, ocrLog, uploadLog, retakeLog, issueLog>>

\* ---- onOdometerFile ----
\* lines 232-243: the change event of the odometer input
onOdometerFile(file) ==
  /\ odoRun.pc = "idle" /\ nextPhoto <= MaxPhotos
  /\ odometerScanning' = TRUE
  /\ qualityIssue' = (IF qualityIssue.role = "odometer" THEN NoIssue ELSE qualityIssue)
  /\ odometerCaptureFallback' = FALSE
  /\ odoRun' = [NoRun EXCEPT !.pc = "analyzing", !.photo = nextPhoto, !.role = "dash_odo",
                             !.sealedSeen = isSealed, !.file = file,
                             !.chooser = odometerCaptureFallback /\ ~testEnv]
  /\ nextPhoto' = nextPhoto + 1
  /\ UNCHANGED <<vinVars, libVars, otherVars, testEnv, server, isSealed, uploading, activeRole, guideRole,
                 ocrScanning, fileRun, ocrLog, uploadLog, retakeLog, issueLog, alertLog>>

\* lines 243-264: analyzeAndCropImage has settled
onOdometerAnalyzed(env) ==
  /\ odoRun.pc = "analyzing"
  /\ \E r \in {analyzeAndCropImage(odoRun.file, AnalyzeOptionsOf("odometer", "undefined"),
                                     env)} :
     LET analysis == ActedAnalysis(odoRun.file, r.analysis)
     IN IF r.status # "ok"
        THEN \* caught at line 303; finally at line 306
             /\ odometerScanning' = FALSE
             /\ odoRun' = NoRun
             /\ UNCHANGED <<qualityIssue, ocrLog, retakeLog, issueLog>>
        ELSE /\ retakeLog' = (IF analysis.shouldRetake THEN retakeLog \cup {odoRun.photo}
                              ELSE retakeLog)
             /\ IF RetakeGate(analysis)
                THEN /\ qualityIssue' = [role |-> "odometer", issues |-> analysis.issues]
                     /\ issueLog' = issueLog \cup {odoRun.photo}
                     /\ odometerScanning' = FALSE
                     /\ odoRun' = NoRun
                     /\ UNCHANGED ocrLog
                ELSE /\ ocrLog' = ocrLog \cup {odoRun.photo}
                     /\ odoRun' = [odoRun EXCEPT !.pc = "ocr", !.file = NoFile]
                     /\ UNCHANGED <<qualityIssue, issueLog, odometerScanning>>
  /\ UNCHANGED <<vinVars, libVars, otherVars, testEnv, server, isSealed, uploading, activeRole, guideRole,
                 ocrScanning, odometerCaptureFallback, fileRun,
                 nextPhoto, uploadLog, alertLog>>

\* lines 261-294: ocrOdoFromImage has settled
onOdometerOcrSettled(ok) ==
  /\ odoRun.pc = "ocr"
  /\ IF ok
     THEN /\ uploading' = "dash_odo"
          /\ uploadLog' = uploadLog \cup {odoRun.photo}
          /\ odoRun' = [odoRun EXCEPT !.pc = "upload"]
          /\ UNCHANGED odometerScanning
     ELSE /\ odometerScanning' = FALSE
          /\ odoRun' = NoRun
          /\ UNCHANGED <<uploading, uploadLog>>
  /\ UNCHANGED <<vinVars, libVars, otherVars, testEnv, server, isSealed, activeRole, guideRole, qualityIssue,
                 ocrScanning, odometerCaptureFallback, fileRun,
                 nextPhoto, ocrLog, retakeLog, issueLog, alertLog>>

\* lines 283-308: uploadPhotoDev has settled
onOdometerUploadSettled(ok, stored) ==
  /\ odoRun.pc = "upload"
  /\ ok => stored
  /\ server' = [server EXCEPT !.photos = IF stored THEN @ \cup {"dash_odo"} ELSE @]
  /\ IF ok
     THEN /\ odoRun' = [odoRun EXCEPT !.pc = "reload"]
          /\ UNCHANGED <<uploading, odometerScanning>>
     ELSE /\ uploading' = "null"
          /\ odometerScanning' = FALSE
          /\ odoRun' = NoRun
  /\ UNCHANGED <<vinVars, libVars, otherVars, testEnv, isSealed, activeRole, guideRole, qualityIssue,
                 ocrScanning, odometerCaptureFallback, fileRun,
                 logVars>>

\* lines 295-308: load() has settled
onOdometerReloaded ==
  /\ odoRun.pc = "reload"
  /\ LoadApplied
  /\ uploading' = "null"
  /\ odometerScanning' = FALSE
  /\ odoRun' = NoRun
  /\ UNCHANGED <<vinVars, libVars, loadKept, testEnv, server, activeRole, guideRole, qualityIssue,
                 ocrScanning, odometerCaptureFallback, fileRun,
                 logVars>>

NextPage ==
  \/ load
  \/ \E role \in Roles : choosePhoto(role)
  \/ guideProceed
  \/ guideCancel
  \/ captureOdometer
  \/ odometerTimer
  \/ retakePhoto
  \/ dismissIssue
  \/ \E file \in PageFiles : onFile(file)
  \/ \E env \in PageEnvs : onFileAnalyzed(env)
  \/ onFileOcrSettled
  \/ \E ok \in BOOLEAN, stored \in BOOLEAN : onFileUploadSettled(ok, stored)
  \/ \E checkOk \in BOOLEAN : onFileConfirm(checkOk)
  \/ \E finalOk \in BOOLEAN : onFileFinalCheck(finalOk)
  \/ \E file \in PageFiles : onOdometerFile(file)
  \/ \E env \in PageEnvs : onOdometerAnalyzed(env)
  \/ \E ok \in BOOLEAN : onOdometerOcrSettled(ok)
  \/ \E ok \in BOOLEAN, stored \in BOOLEAN : onOdometerUploadSettled(ok, stored)
  \/ onOdometerReloaded

SpecPage == InitPage /\ [][NextPage]_vars

\* Each request an onFile run awaits settles: the run takes its next step.
FileRunStep ==
  \/ \E env \in PageEnvs : onFileAnalyzed(env)
  \/ onFileOcrSettled
  \/ \E ok \in BOOLEAN, stored \in BOOLEAN : onFileUploadSettled(ok, stored)
  \/ \E checkOk \in BOOLEAN : onFileConfirm(checkOk)
  \/ \E finalOk \in BOOLEAN : onFileFinalCheck(finalOk)

\* The page with the photo roles only: what the user does around an onFile
\* run, and the steps of the run.
NextFileRun ==
  \/ load
  \/ \E role \in Roles : choosePhoto(role)
  \/ guideProceed
  \/ guideCancel
  \/ retakePhoto
  \/ dismissIssue
  \/ \E file \in PageFiles : onFile(file)
  \/ FileRunStep

SpecFileRun == InitPage /\ [][NextFileRun]_vars /\ WF_vars(FileRunStep)

\* ------------------------------------------- specification: normalizeVin
\* The strings handed to normalizeVin are put together from a prefix, a label
\* word, a separator, a token and a suffix.  A separator is whitespace, an
\* optional punctuation character and whitespace again.
Spaces(n) == [i \in 1..n |-> " "]

Separators ==
  {Spaces(a) \o p \o Spaces(b) :
     a \in 0..MaxPad, b \in 0..MaxPad, p \in {<<>>, <<":">>, <<".">>}}
  \cup {<<"-", "\t", "\n">>, <<"#", " ">>, Spaces(8) \o <<":">>, Spaces(9)}

LabelWords ==
  {<<"V", "I", "N">>,
   <<"V", "/", "N">>,
   <<"V", "N">>,
   <<"C", "H", "A", "S", "S", "I", "S">>,
   <<"C", "H", "A", "S">>,
   <<"N", "O">>,
   <<"v", "i", "n">>,
   <<"V", "I", "N", "S">>,
   <<"V", "I", "O", "N">>}

Tokens ==
  {<<"A", "B", "C", "D">>,
   <<"A", "B", "C", "D", "E">>,
   <<"W", "D", "D", "2", "0", "4", "0", "0", "8", "2", "R", "0", "8", "8", "8", "6", "6">>,
   <<"A", "B", "O", "1", "2", "3", "4", "D", "E", "F", "G", "H", "1", "2", "3", "4", "Q", "5">>,
   <<"1", "H", "G", "C", "M", "8", "2", "6", "3", "3", "A", "0", "0", "4", "3", "5", "2", "9">>,
   <<"i", "o", "q", "1", "2">>}

Prefixes ==
  {<<>>,
   <<"X", " ">>,
   <<"_">>,
   <<"N", "O", " ", " ", "1", "2", " ">>,
   <<"V", "I", "N", " ", " ", "Z", "Z", "Z", "Z", "Z", " ">>}

Suffixes ==
  {<<>>,
   <<" ", "7", "7">>,
   <<"Z">>}

LabelShapes ==
  {[NoShape EXCEPT !.family = "label", !.prefix = x, !.marker = m, !.sep = s, !.token = t,
                   !.suffix = y] :
     x \in Prefixes, m \in LabelWords, s \in Separators, t \in Tokens, y \in Suffixes}
  \cup {[NoShape EXCEPT !.family = "label", !.token = t] : t \in Tokens}

\* The 17-character strings handed to isValidVin: a base with the character
\* at one position replaced.
VinBases ==
  {<<"1", "H", "G", "C", "M", "8", "2", "6", "3", "3", "A", "0", "0", "4", "3", "5", "2">>,
   <<"J", "H", "T", "F", "R", "2", "2", "G", "5", "0", "6", "0", "1", "2", "3", "5", "8">>,
   <<"A", "H", "T", "F", "R", "2", "2", "G", "0", "0", "6", "0", "1", "3", "0", "3", "1">>,
   <<"A", "H", "T", "F", "R", "2", "2", "G", "1", "0", "6", "0", "1", "2", "3", "7", "3">>,
   <<"B", "H", "T", "F", "R", "2", "2", "G", "5", "0", "6", "0", "1", "2", "7", "0", "9">>,
   <<"V", "H", "T", "F", "R", "2", "2", "G", "8", "0", "6", "0", "1", "2", "3", "8", "0">>,
   <<"A", "H", "T", "F", "R", "2", "2", "G", "X", "0", "6", "0", "1", "2", "4", "2", "2">>,
   <<"A", "H", "0", "0", "0", "0", "G", "G", "4", "0", "6", "0", "1", "2", "3", "4", "5">>,
   <<"A", "H", "L", "1", "1", "R", "2", "G", "4", "0", "6", "0", "1", "2", "3", "4", "5">>,
   <<"A", "H", "T", "F", "R", "2", "2", "G", "3", "0", "6", "7", "7", "7", "7", "7", "7">>,
   <<"A", "H", "0", "0", "0", "0", "G", "G", "S", "0", "6", "0", "1", "2", "3", "5", "4">>,
   <<"1", "1", "1", "1", "1", "1", "1", "1", "1", "1", "1", "1", "1", "1", "1", "1", "1">>,
   <<"A", "A", "A", "A", "A", "A", "A", "A", "A", "A", "A", "A", "A", "A", "A", "A", "A">>}

Replacements == {"0", "1", "5", "8", "O", "I", "L", "S", "B", "X", "3", "Z", "-", "s"}

VinShapes ==
  {[NoShape EXCEPT !.family = "vin", !.base = b, !.pos = i, !.char = c] :
     b \in VinBases, i \in 1..VinLength, c \in Replacements}

\* '', null and undefined
SpecialShapes == {[NoShape EXCEPT !.family = f] : f \in {"empty", "null", "undefined"}}

TextOf(sh) ==
  IF sh.family = "label" THEN sh.prefix \o sh.marker \o sh.sep \o sh.token \o sh.suffix
  ELSE IF sh.family = "vin" THEN [sh.base EXCEPT ![sh.pos] = sh.char]
  ELSE <<>>

RawOf(sh) ==
  [kind |-> IF sh.family \in {"null", "undefined"} THEN sh.family ELSE "string",
   text |-> TextOf(sh)]

String(text) == [kind |-> "string", text |-> text]

InitNormalize ==
  /\ NoLibrary
  /\ NoPage
  /\ NoTyres
  /\ NoScanner
  /\ NoOcr
  /\ shape \in LabelShapes \cup VinShapes \cup SpecialShapes
  /\ raw = RawOf(shape)
  /\ normalized = NoNormalized
  /\ renormalized = NoNormalized
  /\ verdict = NoVerdict

\* normalizeVin(raw)
NormalizeCall ==
  /\ ~normalized.done
  /\ normalized' = [done |-> TRUE, text |-> normalizeVin(raw)]
  /\ UNCHANGED <<libVars, pageVars, otherVars, raw, shape, renormalized, verdict>>

\* normalizeVin(normalizeVin(raw)), as isValidVin(formatVin(raw)) computes it
NormalizeAgainCall ==
  /\ normalized.done /\ ~renormalized.done
  /\ renormalized' = [done |-> TRUE, text |-> normalizeVin(String(normalized.text))]
  /\ UNCHANGED <<libVars, pageVars, otherVars, raw, shape, normalized, verdict>>

NextNormalize == NormalizeCall \/ NormalizeAgainCall

SpecNormalize == InitNormalize /\ [][NextNormalize]_vars

\* --------------------------------------------- specification: isValidVin
ValidLabelShapes ==
  {sh \in LabelShapes : sh.prefix = <<>> /\ sh.suffix = <<>> /\ Len(sh.sep) <= 3}

InitValid ==
  /\ NoLibrary
  /\ NoPage
  /\ NoTyres
  /\ NoScanner
  /\ NoOcr
  /\ shape \in VinShapes \cup SpecialShapes \cup ValidLabelShapes
  /\ raw = RawOf(shape)
  /\ normalized = NoNormalized
  /\ renormalized = NoNormalized
  /\ verdict = NoVerdict

\* isValidVin(raw)
IsValidCall ==
  /\ ~verdict.done
  /\ verdict' = [isValidVin(raw) EXCEPT !.done = TRUE]
  /\ UNCHANGED <<libVars, pageVars, otherVars, raw, shape, normalized, renormalized>>

NextValid == IsValidCall

SpecValid == InitValid /\ [][NextValid]_vars

\* ----------------------------------------------------------------- claims
Ok == result.status = "ok"
SrcW == call.file.frame.width
SrcH == call.file.frame.height

\* C2: in every result analyzeAndCropImage returns, for either target and
\* any pixel data, analysis.shouldRetake is true exactly when
\* analysis.issues is non-empty.
C2_RetakeIffIssues ==
  Ok => (result.analysis.shouldRetake <=> Len(result.analysis.issues) > 0)

C2_Witness ==
  /\ Ok
  /\ call.options.target = "odometer"
  /\ ~result.analysis.shouldRetake
  /\ result.analysis.issues = <<>>

C4_MarginClamped ==
  (result.status # "none" /\ result.cropArg.called) =>
    LET m == result.cropArg
        o == call.options
    IN /\ ~m.nan
       /\ m.v >= 0
       /\ m.v <= 250
       /\ (o.hasMarginRatio /\ ~o.marginRatio.nan /\ o.marginRatio.v \in 0..250)
            => m.v = o.marginRatio.v
       /\ ~o.hasMarginRatio => m.v = (IF o.target = "vin" THEN 120 ELSE 100)
       /\ Ok => result.marginRatio = [nan |-> m.nan, v |-> m.v]

\* C5: when the computed crop has width <= 0 or height <= 0 no error is
\* raised; cropApplied is false, cropBounds is the full source rectangle and
\* processedFile is the original file.
C5_DegenerateCropFallsBack ==
  LET m == EffectiveMargin(call.options)
      degenerate == /\ ~m.nan
                    /\ m.v > 0
                    /\ \/ SrcW - 2 * RoundMul(SrcW, m.v) <= 0
                       \/ SrcH - 2 * RoundMul(SrcH, m.v) <= 0
  IN (/\ result.status # "none"
      /\ IsImageType(call.file.type) /\ call.file.decodes /\ call.env.ctxOk
      /\ degenerate) =>
        /\ Ok
        /\ ~result.analysis.cropApplied
        /\ result.analysis.cropBounds = [x |-> 0, y |-> 0, width |-> SrcW, height |-> SrcH]
        /\ result.analysis.processedDimensions = [width |-> SrcW, height |-> SrcH]
        /\ result.processedFile = call.file

C5_Witness ==
  /\ Ok
  /\ SrcW = 2 /\ SrcH = 5
  /\ result.marginRatio = Num(250)
  /\ ~result.analysis.cropApplied
  /\ result.processedFile = call.file

\* C6: for a source of width W >= 1 and height H >= 1 and an effective ratio
\* in [0, 0.25], cropBounds lies inside the source and is symmetric, with
\* x = round(W * ratio) and y = round(H * ratio) when the crop is applied.
C6_BoundsInsideAndSymmetric ==
  Ok =>
    LET b == result.analysis.cropBounds
        m == result.marginRatio
    IN /\ b.x >= 0 /\ b.y >= 0 /\ b.width > 0 /\ b.height > 0
       /\ b.x + b.width <= SrcW /\ b.y + b.height <= SrcH
       /\ SrcW - (b.x + b.width) = b.x
       /\ SrcH - (b.y + b.height) = b.y
       /\ result.analysis.cropApplied =>
            /\ b.x = (2 * SrcW * m.v + 1000) \div 2000
            /\ b.y = (2 * SrcH * m.v + 1000) \div 2000

C6_Witness ==
  /\ Ok
  /\ result.analysis.cropApplied
  /\ result.analysis.cropBounds = [x |-> 1, y |-> 1, width |-> 3, height |-> 2]

\* C7: brightness, contrast and sharpness come only from the pixels of the
\* cropped image; centerContrast, edgeContrast and framingScore only from the
\* original frame; the two images coincide only when no crop is applied.
C7_MetricsOnCropFramingOnOriginal ==
  Ok =>
    LET a == result.analysis
        f == call.file.frame
        b == a.cropBounds
        onCrop == computeMetrics(getImageData(f, b.x, b.y, b.width, b.height))
        edge == computeEdgeStats(f.data, f.width, f.height)
        center == computeRegionStats(f.data, f.width, f.height, 25, 75, 25, 75)
        \* the same frame with the corner pixel (0, 0) changed
        other == [f EXCEPT !.data[0] = IF f.data[0] = Palette[1] THEN Palette[3]
                                        ELSE Palette[1]]
        again == analyzeAndCropImage([call.file EXCEPT !.frame = other],
                                     call.options, call.env).analysis
    IN /\ a.brightness = onCrop.brightness
       /\ a.contrast = onCrop.contrast
       /\ a.sharpness = onCrop.sharpness
       /\ a.centerContrast = center.contrast
       /\ a.edgeContrast = edge.contrast
       /\ a.framingScore = center.contrast - edge.contrast
       /\ (b.x > 0 \/ b.y > 0) =>
            /\ again.brightness = a.brightness
            /\ again.contrast = a.contrast
            /\ again.sharpness = a.sharpness
       /\ a.cropApplied <=> a.processedDimensions # a.originalDimensions

C7_Witness ==
  /\ Ok
  /\ result.analysis.cropApplied
  /\ result.analysis.brightness
       # computeMetrics(call.file.frame).brightness
  /\ result.analysis.edgeContrast > 0

\* C8: for every width and height the number of pixels computeMetrics
\* samples with stride max(1, floor(sqrt(width * height / 120000))) stays
\* within the fixed sample budget, whatever the resolution.
C8_SamplesWithinBudget ==
  sampled.computed =>
    sampled.samples <= maxSamples

\* C9: the left and right edge bands contain no pixel of the top or bottom
\* band; top and bottom span the full width, corners included.
RectsOverlap(r1, r2) ==
  /\ Max(r1.x0, r2.x0) < Min(r1.x1, r2.x1)
  /\ Max(r1.y0, r2.y0) < Min(r1.y1, r2.y1)

C9_SideBandsDisjointFromTopBottom ==
  bands.computed =>
    /\ ~RectsOverlap(bands.left, bands.top)
    /\ ~RectsOverlap(bands.left, bands.bottom)
    /\ ~RectsOverlap(bands.right, bands.top)
    /\ ~RectsOverlap(bands.right, bands.bottom)
    /\ bands.top.x0 = 0 /\ bands.top.x1 = dims.width
    /\ bands.bottom.x0 = 0 /\ bands.bottom.x1 = dims.width

\* C10: brightness, contrast and sharpness returned by computeMetrics are
\* >= 0 for every pixel buffer; they are 0 for a buffer with no pixels, and
\* contrast and sharpness are 0 for a single pixel.
C10_MetricsNonNegative ==
  metrics.computed =>
    /\ metrics.brightness >= 0
    /\ metrics.contrast >= 0
    /\ metrics.sharpness >= 0
    /\ imageData.width * imageData.height = 0 =>
         metrics.brightness = 0 /\ metrics.contrast = 0 /\ metrics.sharpness = 0
    /\ imageData.width * imageData.height = 1 =>
         /\ metrics.brightness = Lum(imageData.data[0]) * Scale
         /\ metrics.contrast = 0
         /\ metrics.sharpness = 0

C10_Witness ==
  /\ metrics.computed
  /\ imageData.width = 2 /\ imageData.height = 1
  /\ metrics.brightness > 0
  /\ metrics.contrast > 0
  /\ metrics.sharpness > 0

\* C1: for every photo handled by onFile or onOdometerFile, if the analysis
\* the handler acts on has shouldRetake = true, then no OCR request and no
\* uploadPhotoDev call is made for that photo; the handler records a quality
\* issue for the role and returns.
C1_RetakeBlocksOcrAndUpload ==
  \A p \in retakeLog :
    /\ p \notin ocrLog
    /\ p \notin uploadLog
    /\ p \in issueLog
    /\ fileRun.photo # p
    /\ odoRun.photo # p

C1_Witness ==
  /\ Cardinality(retakeLog) = 2
  /\ qualityIssue.role = "odometer"
  /\ qualityIssue.issues = <<>>
  /\ odoRun.pc = "idle"
  /\ fileRun.pc = "idle"

\* ---------------------------------------------------- claims: VIN utilities
\* a string with everything but the VIN characters (A-Z and 0-9 without I, O
\* and Q) removed, cut to 17 characters
Cleaned(s) ==
  LET kept == SelectSeq(s, IsVinChar)
  IN IF Len(kept) > 17 THEN SubSeq(kept, 1, 17) ELSE kept

\* the label words that are markers once uppercased
IsMarker(word) ==
  toUpperCase(word) \in {<<"V", "I", "N">>, <<"V", "/", "N">>, <<"V", "N">>, <<"C", "H", "A", "S", "S", "I", "S">>, <<"C", "H", "A", "S">>, <<"N", "O">>}

\* the run of [A-Z0-9] that starts at the token of a label input
TokenRun(sh) ==
  LET rest == toUpperCase(sh.token \o sh.suffix)
  IN SubSeq(rest, 1, SkipAlnum(rest, 1) - 1)

\* the prefixes that hold no label of their own
PlainPrefixes == {<<>>, <<"X", " ">>, <<"N", "O", " ", " ", "1", "2", " ">>}

\* C11: for every input string normalizeVin returns at most 17 characters,
\* each an uppercase letter or a digit other than I, O and Q; it does not
\* throw, and it returns the empty string for '', null and undefined.
C11_NormalizedShape ==
  normalized.done =>
    /\ Len(normalized.text) <= 17
    /\ \A i \in 1..Len(normalized.text) :
         /\ normalized.text[i] \in Letters \cup Digits
         /\ normalized.text[i] \notin {"I", "O", "Q"}
    /\ shape.family \in {"empty", "null", "undefined"} => normalized.text = <<>>

C11_Witness ==
  /\ normalized.done
  /\ shape.family = "label"
  /\ Len(raw.text) > 17
  /\ \E i \in 1..Len(raw.text) : raw.text[i] \in {"I", "O", "Q"}
  /\ Len(normalized.text) = 17

\* whitespace, an optional punctuation character, two or more whitespace
\* characters
SpacedSeparator(sep) ==
  \E a \in 0..Len(sep) :
    /\ \A i \in 1..a : IsSpace(sep[i])
    /\ \/ a = Len(sep) /\ a >= 2
       \/ /\ a < Len(sep) /\ IsLabelPunct(sep[a + 1]) /\ Len(sep) - (a + 1) >= 2
          /\ \A i \in (a + 2)..Len(sep) : IsSpace(sep[i])

\* C12: when the uppercased input holds a marker (VIN, V/N, VN, CHASSIS, CHAS
\* or NO as a whole word), an optional ':', '-' or '#', two or more
\* whitespace characters and a run of 5 or more alphanumerics, normalizeVin
\* returns the cleaned run of the first such occurrence, and nothing of the
\* label; normalizeVin("VIN:  WDD2040082R088866") = "WDD2040082R088866".
C12_StrictLabelRunReturned ==
  (normalized.done /\ shape.family = "label") =>
    /\ (/\ shape.prefix \in PlainPrefixes
        /\ IsMarker(shape.marker)
        /\ SpacedSeparator(shape.sep)
        /\ Len(TokenRun(shape)) >= 5)
         => normalized.text = Cleaned(TokenRun(shape))
    /\ shape.prefix = <<"V", "I", "N", " ", " ", "Z", "Z", "Z", "Z", "Z", " ">> => normalized.text = <<"Z", "Z", "Z", "Z", "Z">>
    /\ raw.text = <<"V", "I", "N", ":", " ", " ", "W", "D", "D", "2", "0", "4", "0", "0", "8", "2", "R", "0", "8", "8", "8", "6", "6">>
         => normalized.text = <<"W", "D", "D", "2", "0", "4", "0", "0", "8", "2", "R", "0", "8", "8", "8", "6", "6">>

C12_Witness ==
  /\ normalized.done
  /\ raw.text = <<"V", "I", "N", ":", " ", " ", "W", "D", "D", "2", "0", "4", "0", "0", "8", "2", "R", "0", "8", "8", "8", "6", "6">>
  /\ normalized.text = <<"W", "D", "D", "2", "0", "4", "0", "0", "8", "2", "R", "0", "8", "8", "8", "6", "6">>

\* a separator of the loose pattern: whitespace, an optional punctuation
\* character, whitespace
LooseSeparator(sep) ==
  /\ Len(sep) >= 1
  /\ \E a \in 0..Len(sep) :
       /\ \A i \in 1..a : IsSpace(sep[i])
       /\ \/ a = Len(sep)
          \/ IsLabelPunct(sep[a + 1]) /\ \A i \in (a + 2)..Len(sep) : IsSpace(sep[i])

\* a label input that only the loose pattern matches
LooseOnly(sh) ==
  /\ sh.family = "label"
  /\ sh.prefix \in PlainPrefixes
  /\ IsMarker(sh.marker)
  /\ LooseSeparator(sh.sep) /\ ~SpacedSeparator(sh.sep)
  /\ Len(TokenRun(sh)) >= 5

\* C13 (amended): when the strict pattern does not match and the loose pattern
\* (marker, any separator, 5 or more alphanumerics) matches, normalizeVin
\* returns the cleaned captured token, however long the separator is: the
\* guard of line 14 compares the length of marker plus separator with 3, and
\* never discards the match.
C13_LooseMatchAlwaysUsed ==
  (normalized.done /\ LooseOnly(shape)) =>
    /\ ~match(toUpperCase(raw.text), TRUE).found
    /\ match(toUpperCase(raw.text), FALSE).found
    /\ normalized.text = Cleaned(TokenRun(shape))

C13_Witness ==
  /\ normalized.done
  /\ LooseOnly(shape)
  /\ Len(shape.sep) < Len(TokenRun(shape)) + 3
  /\ raw.text = <<"V", "I", "N", ":", "A", "B", "C", "D", "E">>
  /\ normalized.text = <<"A", "B", "C", "D", "E">>

\* C13 as stated: the captured token is used only if the separator is at least
\* 3 characters longer than the token; otherwise the whole input is cleaned.
C13_LooseMatchUsedOnlyForLongSeparator ==
  (normalized.done /\ LooseOnly(shape)) =>
    normalized.text = IF Len(shape.sep) >= Len(TokenRun(shape)) + 3
                      THEN Cleaned(TokenRun(shape))
                      ELSE Cleaned(toUpperCase(raw.text))

\* neither LABEL_PATTERN_STRICT nor LABEL_PATTERN_LOOSE matches s
NoLabel(s) == ~match(s, TRUE).found /\ ~match(s, FALSE).found

\* the label inputs that hold a token only, a word that is no marker, or a
\* marker that is not a whole word
Unlabelled(sh) ==
  \/ sh.family = "vin"
  \/ sh.family = "label" /\ sh.marker = <<>>
  \/ sh.family = "label" /\ sh.prefix = <<>> /\ ~IsMarker(sh.marker)
  \/ sh.family = "label" /\ sh.prefix = <<"_">> /\ sh.sep = <<>>

\* C14: when the uppercased input matches neither label pattern, normalizeVin
\* returns the first 17 characters of the uppercased input with every
\* character outside A-Z and 0-9 and every I, O and Q removed, in order.
C14_NoLabelWholeInputCleaned ==
  normalized.done =>
    /\ Unlabelled(shape) => NoLabel(toUpperCase(raw.text))
    /\ (raw.kind = "string" /\ NoLabel(toUpperCase(raw.text)))
         => normalized.text = Cleaned(toUpperCase(raw.text))

C14_Witness ==
  /\ normalized.done
  /\ NoLabel(toUpperCase(raw.text))
  /\ raw.text = <<"V", "I", "O", "N", ":", " ", "1", "H", "G", "C", "M", "8", "2", "6", "3", "3", "A", "0", "0", "4", "3", "5", "2", "9", " ", "7", "7">>
  /\ normalized.text = <<"V", "N", "1", "H", "G", "C", "M", "8", "2", "6", "3", "3", "A", "0", "0", "4", "3">>

\* C15: normalizeVin(normalizeVin(s)) = normalizeVin(s) for every input s, and
\* no output of normalizeVin is read as a label followed by a value.
C15_NormalizeIdempotent ==
  renormalized.done =>
    /\ renormalized.text = normalized.text
    /\ NoLabel(normalized.text)

C15_Witness ==
  /\ renormalized.done
  /\ raw.text = <<"V", "I", "O", "N", " ", " ", "A", "B", "C", "D", "E">>
  /\ normalized.text = <<"V", "N", "A", "B", "C", "D", "E">>
  /\ renormalized.text = <<"V", "N", "A", "B", "C", "D", "E">>

\* C16: isValidVin does not throw, and it returns false without evaluating
\* the checksum for every input whose normalized form does not have exactly
\* 17 characters: the empty string, and the strings that lose characters
\* (I, O, Q, punctuation) in normalization.
C16_WrongLengthRejectedBeforeChecksum ==
  verdict.done =>
    /\ ~verdict.threw
    /\ Len(Cleaned(Candidate(toUpperCase(OrEmpty(raw))))) # 17
         => ~verdict.value /\ ~verdict.checksum
    /\ shape.family \in {"empty", "null", "undefined"} => ~verdict.value /\ ~verdict.checksum
    /\ (shape.family = "vin" /\ shape.char \in {"I", "O", "-"})
         => ~verdict.value /\ ~verdict.checksum

C16_Witness ==
  /\ verdict.done
  /\ raw.text = <<"1", "H", "G", "C", "M", "8", "2", "6", "3", "3", "A", "O", "0", "4", "3", "5", "2">>
  /\ ~verdict.value
  /\ ~verdict.checksum

\* the expected check character as the specification states it: 'X' when the
\* weighted sum over the indexes other than 8 is 10 modulo 11, the decimal
\* digit of the remainder otherwise
StatedCheck(n) ==
  IF WeightedSum(n, 1) % 11 = 10 THEN "X"
  ELSE CHOOSE d \in Digits : values[d] = WeightedSum(n, 1) % 11

\* C17: for a 17-character normalized VIN without an OCR-garbage pattern whose
\* first character is not A, B or V, isValidVin returns true if and only if
\* the character at index 8 is the expected check character; 1HGCM82633A004352
\* passes, and fails with any other character at index 8.
C17_CheckDigitDecides ==
  (verdict.done /\ shape.family = "vin") =>
    /\ (/\ VinShape(toUpperCase(raw.text))
        /\ ~hasObviousOcrErrors(toUpperCase(raw.text))
        /\ raw.text[1] \notin {"A", "B", "V"})
         => /\ verdict.checksum
            /\ verdict.value <=> (toUpperCase(raw.text)[9] = StatedCheck(toUpperCase(raw.text)))
    /\ (shape.base = <<"1", "H", "G", "C", "M", "8", "2", "6", "3", "3", "A", "0", "0", "4", "3", "5", "2">> /\ shape.pos = 9)
         => (verdict.value <=> shape.char = "3")

C17_Witness ==
  /\ verdict.done
  /\ raw.text = <<"1", "H", "G", "C", "M", "8", "2", "6", "3", "3", "A", "0", "0", "4", "3", "5", "2">>
  /\ verdict.checksum
  /\ verdict.expectedCheck = "3"
  /\ verdict.value

\* the OCR-garbage patterns as the specification lists them
StatedGarbage(s) ==
  \/ HasRun(s, {"I", "L", "1"}, 3)
  \/ HasRun(s, {"0", "O"}, 4)
  \/ \A i \in 1..Len(s) : s[i] \in Digits
  \/ \A i \in 1..Len(s) : s[i] \in Letters
  \/ \E i \in 1..(Len(s) - 5) : \A k \in 1..5 : s[i + k] = s[i]

\* C18: a 17-character VIN with an OCR-garbage pattern (3 or more consecutive
\* characters of I, L, 1; 4 or more of 0, O; 17 digits; 17 letters; a
\* character 6 or more times in a row) is rejected by isValidVin whatever its
\* check digit is, correct or tolerated; isValidVin("AAAAAAAAAAAAAAAAA") is
\* false.
C18_GarbageRejected ==
  (verdict.done /\ shape.family = "vin") =>
    /\ (Len(raw.text) = 17 /\ StatedGarbage(raw.text)) => ~verdict.value
    /\ raw.text = <<"A", "A", "A", "A", "A", "A", "A", "A", "A", "A", "A", "A", "A", "A", "A", "A", "A">> => ~verdict.value

C18_Witness ==
  /\ verdict.done
  /\ raw.text \in {<<"1", "1", "1", "1", "1", "1", "1", "1", "1", "1", "1", "1", "1", "1", "1", "1", "1">>, <<"A", "H", "0", "0", "0", "0", "G", "G", "S", "0", "6", "0", "1", "2", "3", "5", "4">>}
  /\ StatedGarbage(raw.text)
  /\ \/ raw.text[9] = ExpectedCheck(raw.text)
     \/ raw.text[9] \in toleranceMap[ExpectedCheck(raw.text)]
  /\ ~verdict.value

\* the confusables of an expected check character as the specification lists
\* them: O for 0, I and L for 1, S for 5, B for 8
StatedConfusables(d) ==
  CASE d = "0" -> {"O"} [] d = "1" -> {"I", "L"} [] d = "5" -> {"S"} [] d = "8" -> {"B"}
    [] OTHER -> {}

\* the VINs that isValidVin accepts with their own check character
ValidBases ==
  {b \in VinBases : ~hasObviousOcrErrors(b) /\ b[9] = StatedCheck(b)}

\* C19: isValidVin accepts a 17-character VIN whose character at index 8
\* differs from the expected check character only if the first character is
\* A, B or V and the character at index 8 is a listed confusable of the
\* expected digit; a confusable substitution at another position, or on a VIN
\* with another first character, is not tolerated.
C19_ToleranceOnlyAtCheckDigitOfSAVin ==
  (verdict.done /\ shape.family = "vin") =>
    /\ (verdict.value /\ toUpperCase(raw.text)[9] # StatedCheck(toUpperCase(raw.text)))
         => /\ toUpperCase(raw.text)[1] \in {"A", "B", "V"}
            /\ toUpperCase(raw.text)[9] \in StatedConfusables(StatedCheck(toUpperCase(raw.text)))
    /\ (/\ shape.base \in ValidBases
        /\ shape.pos # 9
        /\ shape.base[shape.pos] \in DOMAIN toleranceMap
        /\ shape.char \in toleranceMap[shape.base[shape.pos]])
         => ~verdict.value
    /\ (/\ shape.base \in ValidBases
        /\ shape.base[1] \notin {"A", "B", "V"}
        /\ shape.pos = 9
        /\ shape.char # shape.base[9])
         => ~verdict.value

C19_Witness ==
  /\ verdict.done
  /\ raw.text = <<"B", "H", "T", "F", "R", "2", "2", "G", "S", "0", "6", "0", "1", "2", "7", "0", "9">>
  /\ verdict.expectedCheck = "5"
  /\ verdict.value

\* C20: for a 17-character input whose first character is A, B or V, without
\* an OCR-garbage pattern and with expected check digit d, isValidVin returns
\* true when the character at the check-digit position is the confusable of
\* d: O for 0, I for 1, L for 1, S for 5 and B for 8.
C20_ConfusableAtCheckDigitAccepted ==
  (/\ verdict.done
   /\ shape.family = "vin"
   /\ shape.base \in ValidBases
   /\ shape.base[1] \in {"A", "B", "V"}
   /\ shape.pos = 9
   /\ shape.char \in StatedConfusables(StatedCheck(shape.base)))
    => verdict.value

\* ------------------------------------------- claims: decoding and file type
\* how often a platform call occurs among the steps of a result
StepCount(steps, name) == Cardinality({i \in 1..Len(steps) : steps[i] = name})

\* C21: when createImageBitmap rejects, analyzeAndCropImage rejects with the
\* same error, has tried the decode exactly once, and produces no analysis
\* result.
C21_DecodeFailureRejectsOnce ==
  (/\ result.status # "none"
   /\ call.file.type \in {"image/jpeg", "image/png"}
   /\ ~call.file.decodes)
    => /\ result.status = "rejected"
       /\ result.error = DecodeError
       /\ StepCount(result.steps, "createImageBitmap") = 1
       /\ result.steps = <<"createImageBitmap">>
       /\ ~result.cropArg.called

C21_Witness ==
  /\ result.status = "rejected"
  /\ call.file.type = "image/jpeg"
  /\ ~call.file.decodes
  /\ result.error = DecodeError
  /\ result.steps = <<"createImageBitmap">>

\* C22: for a file whose MIME type does not start with 'image/',
\* analyzeAndCropImage rejects with 'File must be an image' before any
\* decode, canvas or cropping step.
C22_NonImageRejectedFirst ==
  (/\ result.status # "none"
   /\ call.file.type \in {"text/plain", "application/octet-stream"})
    => /\ result.status = "rejected"
       /\ result.error = "File must be an image"
       /\ result.steps = <<>>
       /\ ~result.cropArg.called

C22_Witness ==
  /\ result.status = "rejected"
  /\ call.file.type = "application/octet-stream"
  /\ call.file.decodes
  /\ result.error = "File must be an image"
  /\ result.steps = <<>>

\* C29: in every result of analyzeAndCropImage originalFile is the input
\* file, and processedFile is the input file itself if and only if
\* cropApplied is false; when cropApplied is true processedFile is a newly
\* encoded file of the cropped image, whose dimensions are
\* processedDimensions and those of cropBounds.
C29_ProcessedFileIsCropIffApplied ==
  Ok =>
    /\ result.originalFile = call.file
    /\ (result.processedFile = call.file) <=> ~result.analysis.cropApplied
    /\ result.analysis.cropApplied =>
         /\ result.processedFile.kind = "crop"
         /\ result.processedFile.frame.width = result.analysis.processedDimensions.width
         /\ result.processedFile.frame.height = result.analysis.processedDimensions.height
         /\ result.analysis.processedDimensions.width = result.analysis.cropBounds.width
         /\ result.analysis.processedDimensions.height = result.analysis.cropBounds.height

\* C30: the length guard of line 14 never rejects a match.  Whenever
\* LABEL_PATTERN_LOOSE matches the uppercased input, the marker and the
\* separator before the captured token are at least 3 characters long, so
\* the captured token is the candidate whenever line 14 is reached.
C30_LooseGuardNeverRejects ==
  (normalized.done /\ match(toUpperCase(OrEmpty(raw)), FALSE).found) =>
    /\ match(toUpperCase(OrEmpty(raw)), FALSE).capStart
         - match(toUpperCase(OrEmpty(raw)), FALSE).start >= 3
    /\ LooseGuard(toUpperCase(OrEmpty(raw)), match(toUpperCase(OrEmpty(raw)), FALSE))
    /\ ~match(toUpperCase(OrEmpty(raw)), TRUE).found =>
         normalized.text
           = Cleaned(Captured(toUpperCase(OrEmpty(raw)), match(toUpperCase(OrEmpty(raw)), FALSE)))

C30_Witness ==
  /\ normalized.done
  /\ raw.text = <<"V", "N", ":", "A", "B", "C", "D", "E">>
  /\ match(raw.text, FALSE).found
  /\ match(raw.text, FALSE).capStart - match(raw.text, FALSE).start = 3
  /\ ~match(raw.text, TRUE).found
  /\ normalized.text = <<"A", "B", "C", "D", "E">>

\* ------------------------------------------------- claims: the sealed page
\* C24: once the page has observed the record as sealed, no sequence of user
\* actions (choosing a photo role, capturing the odometer, 'Retake photo' on
\* a pending quality issue, 'Verify VIN') leads to an uploadPhotoDev call or
\* an OCR request: no run that a button started on the sealed page reaches
\* the OCR request or the upload.
C24_SealedPageSendsNothing ==
  /\ (odoRun.sealedSeen /\ odoRun.chooser) => odoRun.pc \notin {"ocr", "upload", "reload"}
  /\ fileRun.sealedSeen => fileRun.pc \notin {"ocr", "upload"}

\* C25: while an onFile run is in flight, between its setUploading(activeRole)
\* and its final setUploading(null), uploading stays non-null, so that the
\* photo role buttons stay disabled, for every interleaving with a running
\* onOdometerFile.
C25_UploadingHeldDuringFileRun ==
  fileRun.pc # "idle" => uploading # "null"

\* C27: every onFile run that starts with a file and an active role
\* eventually resets uploading to null and activeRole to '', whatever the
\* outcome of analysis, VIN OCR, upload and confirmation, when each awaited
\* request settles; the confirmation loop reloads the record at most 3 times;
\* and 'Upload failed' is reported only when the upload did not succeed and
\* the photo of the role was not found in the record.
C27_FileRunEndsAndResets ==
  /\ [](fileRun.attempts <= 3)
  /\ [][(alertLog' # "none" /\ alertLog' # alertLog)
          => /\ fileRun.pc = "finalCheck" /\ fileRun'.pc = "idle"
             /\ ~fileRun.uploadSuccess
             /\ fileRun.attempts = 3
             /\ alertLog' = "missing" => fileRun.role \notin server.photos]_vars
  /\ [][(fileRun.pc # "idle" /\ fileRun'.pc = "idle")
          => (uploading' = "null" /\ activeRole' = "")]_vars
  /\ (fileRun.pc # "idle") ~> (fileRun.pc = "idle" /\ uploading = "null" /\ activeRole = "")

\* a run whose upload failed has looked three times, and the alert is shown
C27_Witness ==
  /\ fileRun.pc = "idle"
  /\ uploading = "null" /\ activeRole = ""
  /\ alertLog = "missing"
  /\ "engine_bay" \notin server.photos

\* ------------------------------------- specification: the tyre-depth form
\* The tyre section of the Vin page: the four inputs, the Save button and
\* saveTyreDepths, with load().  The odometer and DEKRA sections, which
\* share `saving`, are not part of this specification.

\* what the user can leave in a number input: e.target.value
InputTexts == {"", "-0.1", "0", "12.1"}

\* Number(e.target.value), in tenths of a millimetre
NumberOf(text) ==
  CASE text = "-0.1" -> -1
    [] text = "0" -> 0
    [] text = "12.1" -> 121

\* lines 1015, 1038, 1061 and 1084: e.target.value ? Number(e.target.value) : ''
FieldValue(text) == IF text # "" THEN TyreNum(NumberOf(text)) ELSE TyreEmpty

\* tyres_mm of the record when the page opens: none, all null, or depths
\* stored by another client
SavedTyres ==
  {NoSavedTyres,
   [f \in TyreFields |-> TyreNull],
   [fl |-> TyreNum(0), fr |-> TyreNum(120), rl |-> TyreNull, rr |-> TyreNum(121)]}

\* lines 157-164
allTyreFieldsAlways(depths) == TRUE
allTyreFieldsCompleted(depths) ==
  \A f \in TyreFields :
    /\ depths[f] # TyreEmpty
    /\ depths[f].type = "number" /\ depths[f].v >= 0 /\ depths[f].v <= 120

\* lines 1116-1123: the Save button is rendered and enabled
SaveEnabled == ~isSealed /\ ~(saving = "tyres" \/ ~allTyreFieldsCompleted(tyreDepths))

\* lines 391-396
Payload(depths) ==
  [f \in TyreFields |-> IF depths[f].type = "number" THEN depths[f] ELSE TyreNull]

\* api.ts lines 650-653
validDepth(val) == val = TyreNull \/ (val.type = "number" /\ val.v >= 0 /\ val.v <= 120)

InitTyres ==
  /\ NoLibrary
  /\ NoVin
  /\ testEnv = FALSE
  /\ server \in [sealed : BOOLEAN, photos : {{}}]
  /\ PageConstructed
  /\ tyreDepths = EmptyDepths
  /\ saving = "null"
  /\ tyresMm \in SavedTyres
  /\ tyreRun = NoSave
  /\ NoScanner
  /\ NoOcr

\* onChange of one of the four inputs (disabled when sealed)
tyreInput(field, text) ==
  /\ ~isSealed
  /\ tyreDepths' = [tyreDepths EXCEPT ![field] = FieldValue(text)]
  /\ UNCHANGED <<libVars, pageVars, vinVars, widgetVars, saving, tyresMm, tyreRun>>

\* lines 390-399 and api.ts lines 641-659: a click on Save, up to the POST;
\* when setTyreDepths throws, lines 401-405 follow at once
saveTyreDepths ==
  /\ SaveEnabled
  /\ IF \A f \in TyreFields : validDepth(Payload(tyreDepths)[f])
     THEN /\ saving' = "tyres"
          /\ tyreRun' = [pc |-> "request", payload |-> Payload(tyreDepths)]
     ELSE /\ saving' = "null"
          /\ tyreRun' = tyreRun
  /\ UNCHANGED <<libVars, pageVars, vinVars, widgetVars, tyreDepths, tyresMm>>

\* line 399 has settled: the depths are stored and load() is called (line
\* 400), or the request failed (lines 401-405)
saveTyreDepthsSettled(ok) ==
  /\ tyreRun.pc = "request"
  /\ IF ok
     THEN /\ tyresMm' = tyreRun.payload
          /\ tyreRun' = [tyreRun EXCEPT !.pc = "load"]
          /\ UNCHANGED saving
     ELSE /\ saving' = "null"
          /\ tyreRun' = NoSave
          /\ UNCHANGED tyresMm
  /\ UNCHANGED <<libVars, pageVars, vinVars, widgetVars, tyreDepths>>

\* line 400 has settled, then line 404
saveTyreDepthsLoaded ==
  /\ tyreRun.pc = "load"
  /\ LoadApplied
  /\ saving' = "null"
  /\ tyreRun' = NoSave
  /\ UNCHANGED <<vinVars, libVars, testEnv, server, uploading, activeRole, guideRole,
                 qualityIssue, ocrScanning, odometerScanning, odometerCaptureFallback,
                 fileRun, odoRun, logVars, tyresMm, widgetVars>>

NextTyres ==
  \/ load
  \/ \E field \in TyreFields, text \in InputTexts : tyreInput(field, text)
  \/ saveTyreDepths
  \/ \E ok \in BOOLEAN : saveTyreDepthsSettled(ok)
  \/ saveTyreDepthsLoaded

SpecTyres == InitTyres /\ [][NextTyres]_vars

\* a depth as the form requires it: a number within 0..12 mm
StatedDepth(val) == val.type = "number" /\ val.v \in 0..120

\* C23: the tyre-depth save request is sent only when all four fields hold
\* numbers within 0..12, and it carries those four numbers; with any field
\* empty or out of range the Save button is disabled.
C23_TyreSaveOnlyWhenComplete ==
  /\ []((\E f \in TyreFields : ~StatedDepth(tyreDepths[f])) => ~SaveEnabled)
  /\ [](tyreRun.pc = "request" => \A f \in TyreFields : StatedDepth(tyreRun.payload[f]))
  /\ [][(tyreRun'.pc = "request" /\ tyreRun.pc # "request") =>
          /\ \A f \in TyreFields : StatedDepth(tyreDepths[f])
          /\ tyreRun'.payload = tyreDepths]_vars

C23_Witness ==
  /\ tyreRun.pc = "request"
  /\ tyreRun.payload = [fl |-> TyreNum(0), fr |-> TyreNum(120), rl |-> TyreNum(0), rr |-> TyreNum(0)]
  /\ tyresMm.rr = TyreNum(121)

\* ------------------------------------- specification: the VinScanner
\* One mounted VinScanner with live decoding: startScan, the reader's decode
\* loop calling handleDecoded, Cancel and the unmount.  The reader is
\* @zxing/browser: its loop runs from the moment the scan starts until
\* controls.stop() is called, and the scanner receives the controls when the
\* promise of decodeFromConstraints / decodeFromVideoDevice resolves.  The
\* photo path (decodeFile, selectCandidate) is not part of this
\* specification.

\* what a decode callback can carry: no text, a short code, a 12-character
\* code, a VIN with a right and one with a wrong check digit
DecodedTexts ==
  {<<>>,
   <<"A", "B", "C", "1", "2", "3">>,
   <<"1", "H", "G", "C", "M", "8", "2", "6", "3", "3", "A", "0">>,
   <<"1", "H", "G", "C", "M", "8", "2", "6", "3", "3", "A", "0", "0", "4", "3", "5", "2">>,
   <<"1", "H", "G", "C", "M", "8", "2", "6", "3", "3", "A", "0", "0", "4", "3", "5", "3">>}

formatVin(value) == normalizeVin(String(value))

\* setState of a component that may have been unmounted
SetState(current, value) == IF mounted THEN value ELSE current

\* lines 61-64: stop()
StopApplied ==
  /\ decodeLoop' = (IF controlsRef = "controls" /\ decodeLoop = "running" THEN "stopped"
                    ELSE decodeLoop)
  /\ scanning' = SetState(scanning, FALSE)

\* line 90
Accepts(valid) == valid \/ allowInvalidVins

InitScanner ==
  /\ NoLibrary
  /\ NoPage
  /\ NoVin
  /\ NoTyres
  /\ allowInvalidVins \in BOOLEAN
  /\ ScannerConstructed
  /\ NoOcr

\* lines 167-180 and 115-127, 97-108: the effect after mount calls startScan
startScan(hasGetUserMedia) ==
  /\ mounted /\ decodeLoop = "idle"
  /\ IF hasGetUserMedia
     THEN /\ decodeLoop' = "starting"
          /\ startAttempt' = 1
          /\ scanning' = TRUE
     ELSE /\ decodeLoop' = "unsupported"
          /\ UNCHANGED <<startAttempt, scanning>>
  /\ UNCHANGED <<nonScanVars, allowInvalidVins, mounted, controlsRef, detected, ocrResult,
                 onResultLog, onCloseCalled>>

\* the reader has the camera stream and starts its decode loop
scanStarted ==
  /\ decodeLoop = "starting"
  /\ decodeLoop' = "running"
  /\ UNCHANGED <<nonScanVars, allowInvalidVins, mounted, startAttempt, controlsRef, scanning,
                 detected, ocrResult, onResultLog, onCloseCalled>>

\* lines 128-164: an attempt was rejected; the next one is made (the third
\* only with a fallback device, none without the video element)
startFailed(hasFallback) ==
  /\ decodeLoop = "starting"
  /\ IF mounted /\ (startAttempt = 1 \/ (startAttempt = 2 /\ hasFallback))
     THEN /\ startAttempt' = startAttempt + 1
          /\ scanning' = TRUE
          /\ UNCHANGED decodeLoop
     ELSE /\ decodeLoop' = "unavailable"
          /\ scanning' = SetState(scanning, FALSE)
          /\ UNCHANGED startAttempt
  /\ UNCHANGED <<nonScanVars, allowInvalidVins, mounted, controlsRef, detected, ocrResult,
                 onResultLog, onCloseCalled>>

\* lines 108, 112 and 155: the await returns, controlsRef.current is set
controlsAssigned ==
  /\ decodeLoop = "running" /\ controlsRef = "null"
  /\ controlsRef' = "controls"
  /\ UNCHANGED <<nonScanVars, allowInvalidVins, mounted, decodeLoop, startAttempt, scanning,
                 detected, ocrResult, onResultLog, onCloseCalled>>

\* lines 66-95: the decode loop calls handleDecoded with a result
handleDecoded(text) ==
  /\ decodeLoop = "running" /\ Len(onResultLog) < MaxResults
  /\ \E vinCandidate \in {normalizeVin(String(text))} :
       IF text = <<>> \/ Len(vinCandidate) < 11
       THEN UNCHANGED <<decodeLoop, scanning, detected, ocrResult, onResultLog, onCloseCalled>>
       ELSE \E formatted \in {formatVin(vinCandidate)} :
            \E valid \in {isValidVin(String(formatted)).value} :
              /\ detected' = SetState(detected, formatted)
              /\ ocrResult' = SetState(ocrResult,
                                       [vin |-> formatted, vinValid |-> valid, set |-> TRUE])
              /\ IF Accepts(valid)
                 THEN /\ StopApplied
                      /\ onResultLog' = Append(onResultLog, formatted)
                      /\ onCloseCalled' = TRUE
                 ELSE UNCHANGED <<decodeLoop, scanning, onResultLog, onCloseCalled>>
  /\ UNCHANGED <<nonScanVars, allowInvalidVins, mounted, startAttempt, controlsRef>>

\* the Cancel button: stop(); onClose()
cancel ==
  /\ mounted
  /\ StopApplied
  /\ onCloseCalled' = TRUE
  /\ UNCHANGED <<nonScanVars, allowInvalidVins, mounted, startAttempt, controlsRef, detected,
                 ocrResult, onResultLog>>

\* lines 180-182: the parent takes the scanner off the screen; the effect's
\* cleanup calls stop()
unmount ==
  /\ mounted
  /\ mounted' = FALSE
  /\ StopApplied
  /\ UNCHANGED <<nonScanVars, allowInvalidVins, startAttempt, controlsRef, detected, ocrResult,
                 onResultLog, onCloseCalled>>

NextScanner ==
  \/ \E hasGetUserMedia \in BOOLEAN : startScan(hasGetUserMedia)
  \/ scanStarted
  \/ \E hasFallback \in BOOLEAN : startFailed(hasFallback)
  \/ controlsAssigned
  \/ \E text \in DecodedTexts : handleDecoded(text)
  \/ cancel
  \/ unmount

SpecScanner == InitScanner /\ [][NextScanner]_vars

\* C26: a VinScanner delivers at most one result from live decoding: after
\* handleDecoded has accepted a candidate and called onResult, no later
\* decode callback calls onResult again.
C26_AtMostOneLiveResult == Len(onResultLog) <= 1

\* ------------------------- specification: ocrVinFromImage, ocrOdoFromImage
\* One call of either helper: its arguments are drawn, then the call runs to
\* its end through the awaits of compressImage, fetch and res.json().
\* events is what the call did, in order: the stages passed to onProgress,
\* and "request" for the fetch.

Chars(type) ==
  CASE type = "image/jpeg" -> <<"i", "m", "a", "g", "e", "/", "j", "p", "e", "g">>
    [] type = "image/png" -> <<"i", "m", "a", "g", "e", "/", "p", "n", "g">>
    [] type = "image" -> <<"i", "m", "a", "g", "e">>
    [] type = "text/plain" -> <<"t", "e", "x", "t", "/", "p", "l", "a", "i", "n">>
    [] type = "" -> <<>>

OcrFile(size, type) == [present |-> TRUE, size |-> size, type |-> Chars(type)]

\* the files handed to the helpers: none, empty, just under and at 1000
\* bytes, at and just over 15 MB, and types that are no image
OcrFiles ==
  {NoOcrFile, OcrFile(0, "image/jpeg"), OcrFile(999, "image/jpeg"), OcrFile(999, "image/png"),
   OcrFile(1000, "image/jpeg"), OcrFile(15728640, "image/jpeg"),
   OcrFile(15728641, "image/jpeg"), OcrFile(5000, "text/plain"), OcrFile(5000, "image"),
   OcrFile(5000, "")}

\* String.prototype.startsWith
startsWith(s, prefix) == Len(s) >= Len(prefix) /\ SubSeq(s, 1, Len(prefix)) = prefix

\* api.ts lines 163-186
validateImageFile(file) ==
  IF ~file.present THEN [valid |-> FALSE, error |-> "No file selected"]
  ELSE IF file.size = 0
  THEN [valid |-> FALSE, error |-> "File is empty. Please try taking the photo again."]
  ELSE IF file.size > 15 * 1024 * 1024
  THEN [valid |-> FALSE, error |-> "Photo is too large (max 15MB). Please try again."]
  ELSE IF ~startsWith(file.type, Chars("image") \o <<"/">>)
  THEN [valid |-> FALSE, error |-> "Invalid file type. Only images are allowed."]
  ELSE IF file.type = Chars("image/jpeg") /\ file.size < 1000
  THEN [valid |-> FALSE, error |-> "Photo seems corrupted. Please try taking it again."]
  ELSE [valid |-> TRUE, error |-> ""]

\* lines 198 and 303: const { compress = true } = options
CompressEnabled(options) == options.compress # "false"

\* onProgress?.(stage)
Report(events, options, stage) ==
  IF options.onProgress THEN Append(events, stage) ELSE events

\* lines 230 and 335: if (!res.ok)
ResponseOkAlways(status) == TRUE
ResponseOk(status) == status = "ok"

InitOcr ==
  /\ NoLibrary
  /\ NoPage
  /\ NoVin
  /\ NoTyres
  /\ NoScanner
  /\ ocrCall \in [fn : {"ocrVinFromImage", "ocrOdoFromImage"}, file : OcrFiles,
                  compress : {"undefined", "true", "false"}, onProgress : BOOLEAN]
  /\ ocrRun = NoOcrRun

\* lines 200-228 and 305-333, up to the first await
ocrFromImage ==
  /\ ocrRun.pc = "init"
  /\ \E validated \in {Report(ocrRun.events, ocrCall, "validating")} :
       IF ~validateImageFile(ocrCall.file).valid
       THEN ocrRun' = [ocrRun EXCEPT !.pc = "done", !.events = validated,
                                     !.outcome = "rejected",
                                     !.error = validateImageFile(ocrCall.file).error]
       ELSE IF CompressEnabled(ocrCall)
       THEN ocrRun' = [ocrRun EXCEPT !.pc = "compressImage",
                                     !.events = Report(validated, ocrCall, "compressing")]
       ELSE ocrRun' = [ocrRun EXCEPT !.pc = "fetch",
                                     !.events = Append(Report(validated, ocrCall, "uploading"),
                                                       "request")]
  /\ UNCHANGED <<libVars, pageVars, vinVars, tyreVars, scanVars, ocrCall>>

\* lines 213-228 and 318-333: compressImage has resolved (with a new file
\* or with the original one)
ocrCompressed ==
  /\ ocrRun.pc = "compressImage"
  /\ ocrRun' = [ocrRun EXCEPT !.pc = "fetch",
                              !.events = Append(Report(@, ocrCall, "uploading"), "request")]
  /\ UNCHANGED <<libVars, pageVars, vinVars, tyreVars, scanVars, ocrCall>>

\* lines 224-264 and 329-369: fetch has settled, with a response that is OK
\* ("ok") or not ("error"), or without one ("failed")
ocrFetched(status) ==
  /\ ocrRun.pc = "fetch"
  /\ IF status = "failed"
     THEN ocrRun' = [ocrRun EXCEPT !.pc = "done", !.status = status, !.outcome = "rejected",
                                   !.error = "Failed to fetch"]
     ELSE IF ~ResponseOk(status)
     THEN ocrRun' = [ocrRun EXCEPT !.pc = "done", !.status = status, !.outcome = "rejected",
                                   !.error = "OCR failed"]
     ELSE ocrRun' = [ocrRun EXCEPT !.pc = "json", !.status = status,
                                   !.events = Report(@, ocrCall, "processing")]
  /\ UNCHANGED <<libVars, pageVars, vinVars, tyreVars, scanVars, ocrCall>>

\* lines 266-286 and 371-391: res.json() has settled
ocrParsed(ok) ==
  /\ ocrRun.pc = "json"
  /\ ocrRun' = [ocrRun EXCEPT !.pc = "done",
                              !.outcome = IF ok THEN "resolved" ELSE "rejected",
                              !.error = IF ok THEN "" ELSE "Unexpected end of JSON input"]
  /\ UNCHANGED <<libVars, pageVars, vinVars, tyreVars, scanVars, ocrCall>>

NextOcr ==
  \/ ocrFromImage
  \/ ocrCompressed
  \/ \E status \in {"ok", "error", "failed"} : ocrFetched(status)
  \/ \E ok \in BOOLEAN : ocrParsed(ok)

SpecOcr == InitOcr /\ [][NextOcr]_vars

\* the stages in the order the helpers are said to report them
StatedStages(compress) ==
  IF compress = "false" THEN <<"validating", "uploading", "processing">>
  ELSE <<"validating", "compressing", "uploading", "processing">>

StagesOf(events) == SelectSeq(events, LAMBDA e : e # "request")

\* a file validateImageFile is said to accept: present, not empty, at most
\* 15 MB, of an image/ type, and no JPEG under 1000 bytes
StatedValid(file) ==
  /\ file.present /\ file.size > 0 /\ file.size <= 15728640
  /\ Len(file.type) >= 6 /\ SubSeq(file.type, 1, 6) = <<"i", "m", "a", "g", "e", "/">>
  /\ ~(file.type = <<"i", "m", "a", "g", "e", "/", "j", "p", "e", "g">> /\ file.size < 1000)

\* C28: the stages reported by a call are a prefix of validating,
\* compressing (only with compress enabled), uploading, processing, so each
\* is reported at most once and in that order; with onProgress given,
\* 'uploading' is reported right before the request is sent and 'processing'
\* only after a response with an OK status; for a file that validateImageFile
\* rejects only 'validating' is reported, no request is sent and the call
\* rejects with the validation error.
C28_ProgressStagesInOrder ==
  /\ Len(StagesOf(ocrRun.events)) <= Len(StatedStages(ocrCall.compress))
  /\ StagesOf(ocrRun.events)
       = SubSeq(StatedStages(ocrCall.compress), 1, Len(StagesOf(ocrRun.events)))
  /\ ~ocrCall.onProgress => StagesOf(ocrRun.events) = <<>>
  /\ \A i \in 1..Len(ocrRun.events) :
       /\ (ocrRun.events[i] = "request" /\ ocrCall.onProgress) =>
            (i > 1 /\ ocrRun.events[i - 1] = "uploading")
       /\ ocrRun.events[i] = "request" => \A j \in 1..Len(ocrRun.events) :
            ocrRun.events[j] = "request" => j = i
       /\ ocrRun.events[i] = "processing" =>
            (ocrRun.status = "ok" /\ \E j \in 1..(i - 1) : ocrRun.events[j] = "request")
  /\ (ocrRun.pc # "init" /\ ~StatedValid(ocrCall.file)) =>
       /\ ocrRun.pc = "done" /\ ocrRun.outcome = "rejected"
       /\ ocrRun.error = validateImageFile(ocrCall.file).error /\ ocrRun.error # ""
       /\ ocrRun.events = (IF ocrCall.onProgress THEN <<"validating">> ELSE <<>>)
  /\ (ocrRun.pc # "init" /\ StatedValid(ocrCall.file)) =>
       (ocrCall.onProgress => Len(ocrRun.events) >= 2)

C28_Witness ==
  /\ ocrRun.pc = "done" /\ ocrRun.outcome = "resolved"
  /\ ocrCall.fn = "ocrOdoFromImage" /\ ocrCall.compress = "undefined"
  /\ ocrRun.events = <<"validating", "compressing", "uploading", "request", "processing">>

====
